---- MODULE Spec2Model ----
(***************************************************************************)
(* A model of go-perf: the perfsession Session tracker (Update, fork,      *)
(* munmap, LookupMmap) and the perffile record iterator (File.Records,     *)
(* Records.Next, bufferedSectionReader).                                   *)
(*                                                                         *)
(* uint64 arithmetic is modelled modulo 2^AddrBits: the code's additions   *)
(* and subtractions wrap exactly as the 64-bit ones do, on a narrower      *)
(* word.                                                                   *)
(***************************************************************************)
EXTENDS Integers, Sequences, FiniteSets, TLC

VARIABLES
    kernel,     \* Session.kernel: the PIDInfo created by New
    pidInfo,    \* Session.pidInfo: PID -> PIDInfo, NoPID or KernelRef
    nUpdates,   \* number of Update calls made so far
    last,       \* the last Update call: its record and, for a RecordMmap,
                \* the PID's maps before munmap and right after it
    disk,       \* the perf.data file on disk
    file,       \* the perffile.File New returned (NoFile before New)
    rs,         \* the Records iterator File.Records returned (NoRecords
                \* before the call)
    emitted,    \* the records rs.Next has stored in rs.Record when it
                \* returned true, oldest first
    ret,        \* what the last call on rs returned
    sections,   \* the parts of the file New has read
    cpuStr,     \* the string handed to parseCPUSet
    cpuSet,     \* what parseCPUSet(cpuStr) returned
    cpuText,    \* what CPUSet.String returned for that set
    cpuAgain,   \* what parseCPUSet returned for that text
    ranges,     \* the Ranges r: r.rs and r.sorted
    rangesLog,  \* the Add and Get calls made on r, oldest first
    rangesGot,  \* what the last call on r returned, if it was a Get
    dataSrc,    \* the uint64 handed to decodeDataSrc: the positions of its one bits
    dataSrcOut, \* the DataSrc decodeDataSrc returned
    images,     \* the paths at which an image can be loaded
    buildIDs,   \* what session.File.BuildIDs() returns
    tables,     \* session.Extra[symbolicExtraKey]: filename -> *symbolicExtra
    symLog,     \* the Symbolize calls made, oldest first: the filename, the paths newSymbolicExtra was called with, and what Symbolize returned
    osFile,     \* the *os.File of Open: "none" before os.Open returns one, then "open" or "closed"
    osCloses,   \* number of Close calls that *os.File has received
    readerCloses, \* number of Close calls the reader handed to New has received
    closer,     \* file.closer: "nil" or "f", the *os.File
    fileCloses, \* number of File.Close calls made
    heap,       \* the Mmap objects allocated so far, by address
    mapsOf,     \* PID -> the p.maps of its PIDInfo: the addresses it holds, its capacity, and the PID it was forked from (0 if none)
    heapLast,   \* the last Update call, with heap and mapsOf as they were before it
    arrays,     \* the byte arrays made by parseMmap, by address
    recordMmap, \* Records.recordMmap, the RecordMmap every parseMmap call fills in and returns
    kept,       \* the Mmap objects of the Session and the p.maps of the process they were stored for
    keptLast,   \* the last call (Next or Update), its number, and the stored mappings as they read before it
    bsrFile,    \* the section a bufferedSectionReader reads: r the units in the file, dataSize the length of the section
    bsr,        \* the bufferedSectionReader
    bsrLast     \* the last Read or Seek call and what it returned

sessionVars == <<kernel, pidInfo, nUpdates, last>>

recordsVars == <<disk, file, rs, emitted, ret, sections>>

cpuVars == <<cpuStr, cpuSet, cpuText, cpuAgain>>

rangesVars == <<ranges, rangesLog, rangesGot>>

dataSrcVars == <<dataSrc, dataSrcOut>>

symVars == <<images, buildIDs, tables, symLog>>

openVars == <<osFile, osCloses, readerCloses, closer, fileCloses>>

heapVars == <<heap, mapsOf, heapLast>>

scratchVars == <<arrays, recordMmap, kept, keptLast>>

bufVars == <<bsrFile, bsr, bsrLast>>

auxVars == <<cpuVars, rangesVars, dataSrcVars, symVars, openVars, heapVars, scratchVars, bufVars>>

\* all variables but cpuVars
exceptCPUSet == <<sessionVars, recordsVars, rangesVars, dataSrcVars, symVars, openVars, heapVars, scratchVars, bufVars>>

\* all variables but rangesVars
exceptRanges == <<sessionVars, recordsVars, cpuVars, dataSrcVars, symVars, openVars, heapVars, scratchVars, bufVars>>

\* all variables but dataSrcVars
exceptDataSrc == <<sessionVars, recordsVars, cpuVars, rangesVars, symVars, openVars, heapVars, scratchVars, bufVars>>

\* all variables but symVars
exceptSymbolize == <<sessionVars, recordsVars, cpuVars, rangesVars, dataSrcVars, openVars, heapVars, scratchVars, bufVars>>

\* all variables but openVars and recordsVars
exceptOpen == <<sessionVars, cpuVars, rangesVars, dataSrcVars, symVars, heapVars, scratchVars, bufVars>>

\* all variables but heapVars
exceptHeap == <<sessionVars, recordsVars, cpuVars, rangesVars, dataSrcVars, symVars, openVars, scratchVars, bufVars>>

\* all variables but scratchVars
exceptScratch == <<sessionVars, recordsVars, cpuVars, rangesVars, dataSrcVars, symVars, openVars, heapVars, bufVars>>

\* all variables but bufVars
exceptBuf == <<sessionVars, recordsVars, cpuVars, rangesVars, dataSrcVars, symVars, openVars, heapVars, scratchVars>>

vars == <<sessionVars, recordsVars, auxVars>>

----------------------------------------------------------------------------
(* Bounds *)

\* width of the address word (uint64 in the code)
AddrBits == 3

\* the RecordMmaps handed to Update map ranges inside [0, MaxEnd)
MaxEnd == 3

\* number of Update calls explored
MaxUpdates == 3

AddrMod == 2 ^ AddrBits

\* uint64 wrap-around
Wrap(x) == x % AddrMod

PIDs == {-1, 1, 2}

Comms == {"sh"}

Filenames == {"/a"}

FileOffsets == {0}

\* the TID of a record of process pid: the process itself, or a thread of it
TIDs(pid) == {pid, pid + 100}

----------------------------------------------------------------------------
(* Session state *)

NoPID == [kind |-> "none"]

\* s.pidInfo[-1] as set by New: a pointer to the same object as s.kernel
KernelRef == [kind |-> "kernel"]

\* A PIDInfo.  maps[i] is the Mmap p.maps[i] points to; ptr[i] is the
\* smallest index whose entry is the same pointer as entry i (the list can
\* hold one *Mmap twice); cap is cap(p.maps).
MkPIDInfo(comm, hasKernel, maps, ptr, c) ==
    [kind |-> "info", Comm |-> comm, kernel |-> hasKernel,
     maps |-> maps, ptr |-> ptr, cap |-> c]

\* New: the kernel PIDInfo, pinned at PID -1
NewKernel == MkPIDInfo("[kernel]", FALSE, <<>>, <<>>, 0)

\* ensurePID's fresh PIDInfo
NewPIDInfo == MkPIDInfo("", TRUE, <<>>, <<>>, 0)

\* the PIDInfo object s.pidInfo[pid] points to
Deref(k, pi, pid) == IF pi[pid] = KernelRef THEN k ELSE pi[pid]

\* ensurePID(pid), as the object it returns
EnsurePID(k, pi, pid) == IF pi[pid] = NoPID THEN NewPIDInfo ELSE Deref(k, pi, pid)

\* s.pidInfo and s.kernel after the object ensurePID(pid) returned was
\* changed to info
StoreKernel(k, pi, pid, info) == IF pi[pid] = KernelRef THEN info ELSE k

StorePID(k, pi, pid, info) ==
    IF pi[pid] = KernelRef THEN pi ELSE [pi EXCEPT ![pid] = info]

\* Go's append on a full slice: the new capacity (runtime growslice, for
\* small slices of pointers)
GrowCap(c, need) == IF need > 2 * c THEN need ELSE 2 * c

----------------------------------------------------------------------------
(* PIDInfo.munmap *)

\* mmap.Addr+mmap.Len, in uint64
MapEnd(m) == Wrap(m.Addr + m.Len)

\* One iteration of munmap's first loop, for entry i.  st.heap[id] is the
\* Mmap object id, st.old the array p.maps ranges over, st.nm the slice
\* nmaps (0 is nil), st.shared whether both still have the same backing
\* array.
MunmapStep(st, i, addr, end) ==
    LET id == st.old[i]
        m  == st.heap[id]
    IN  IF addr <= m.Addr
        THEN IF end >= MapEnd(m)
             THEN [st EXCEPT !.old[i] = 0,
                             !.nm[i] = IF st.shared THEN 0 ELSE @,
                             !.removed = TRUE]
             ELSE IF end > m.Addr
                  THEN [st EXCEPT !.heap[id].Len = Wrap(m.Len - Wrap(end - m.Addr)),
                                  !.heap[id].Addr = end]
                  ELSE st
        ELSE IF addr < MapEnd(m)
             THEN IF end >= MapEnd(m)
                  THEN [st EXCEPT !.heap[id].Len = Wrap(addr - m.Addr)]
                  ELSE LET nmmap == [m EXCEPT !.Len = Wrap(end - MapEnd(m))]
                           full  == Len(st.nm) >= st.cap
                       IN  [st EXCEPT
                              !.heap = Append([st.heap EXCEPT ![id].Len = Wrap(addr - m.Addr)], nmmap),
                              !.nm = Append(st.nm, Len(st.heap) + 1),
                              !.shared = st.shared /\ ~full,
                              !.cap = IF full THEN GrowCap(st.cap, Len(st.nm) + 1) ELSE @]
             ELSE st

RECURSIVE MunmapLoop(_, _, _, _)
MunmapLoop(st, i, addr, end) ==
    IF i > Len(st.old) THEN st
    ELSE MunmapLoop(MunmapStep(st, i, addr, end), i + 1, addr, end)

\* munmap's "fill holes" loop over nmaps; returns nmaps[:d]
RECURSIVE FillHoles(_, _, _)
FillHoles(nm, d, s) ==
    IF s > Len(nm) THEN SubSeq(nm, 1, d - 1)
    ELSE LET nm1 == IF nm[d] = 0 THEN [nm EXCEPT ![d] = nm[s]] ELSE nm
         IN  FillHoles(nm1, IF nm1[d] # 0 THEN d + 1 ELSE d, s + 1)

\* p.munmap(addr, mlen), as the PIDInfo afterwards
Munmap(p, addr, mlen) ==
    LET end == Wrap(addr + mlen)
        st0 == [heap |-> p.maps, old |-> p.ptr, nm |-> p.ptr,
                shared |-> TRUE, cap |-> p.cap, removed |-> FALSE]
        st  == MunmapLoop(st0, 1, addr, end)
        nm  == IF st.removed THEN FillHoles(st.nm, 1, 1) ELSE st.nm
    IN  [p EXCEPT
           !.maps = [i \in 1..Len(nm) |-> st.heap[nm[i]]],
           !.ptr  = [i \in 1..Len(nm) |->
                        CHOOSE j \in 1..i : nm[j] = nm[i] /\ \A k \in 1..(j - 1) : nm[k] # nm[i]],
           !.cap  = st.cap]

\* info.maps = append(info.maps, &Mmap{...})
AppendMap(p, m) ==
    [p EXCEPT !.maps = Append(@, m),
              !.ptr = Append(@, Len(p.ptr) + 1),
              !.cap = IF Len(p.maps) >= p.cap THEN GrowCap(p.cap, Len(p.maps) + 1) ELSE @]

\* a fork that leaves the child without the parent's maps
ForkNoMaps(p) == [p EXCEPT !.maps = <<>>, !.ptr = <<>>, !.cap = 0]

\* PIDInfo.fork: every Mmap is copied into an object of its own
Fork(p) ==
    [p EXCEPT !.ptr = [i \in 1..Len(p.maps) |-> i], !.cap = Len(p.maps)]

\* PIDInfo.mapFind's test
Contains(m, addr) == m.Addr <= addr /\ addr < MapEnd(m)

\* a nil *Mmap
NilMmap == [kind |-> "nil"]

\* p.mapFind(addr): the first map of p.maps that contains addr
mapFind(p, addr) ==
    LET is == {i \in 1..Len(p.maps) : Contains(p.maps[i], addr)}
    IN  IF is = {} THEN NilMmap
        ELSE p.maps[CHOOSE i \in is : \A j \in is : i <= j]

\* p.LookupMmap(addr); k is the PIDInfo p.kernel points to when it is not
\* nil, which is s.kernel
LookupMmap(k, p, addr) ==
    IF mapFind(p, addr) = NilMmap /\ p.kernel THEN mapFind(k, addr)
    ELSE mapFind(p, addr)

\* s.LookupPID(pid): NoPID is nil
LookupPID(k, pi, pid) == Deref(k, pi, pid)

----------------------------------------------------------------------------
(* perffile: the perf.data format                                          *)
(*                                                                         *)
(* Sizes and offsets are counted in "units" of 8 bytes, the size of a      *)
(* recordHeader and of every u64 field; a pair of 32-bit fields shares one *)
(* unit.  Byte offsets of the code (sampleIDOffset, recordIDOffset,        *)
(* trailerBytes) keep their byte values.                                   *)

\* attr IDs on disk are 0..MaxID
MaxID == 3

\* time stamps on disk are 0..MaxTime
MaxTime == 2

\* number of records in the data section
MaxRecs == 3

\* len(b.buf) of the bufferedSectionReader, in units
BufUnits == 2

\* hdr.Data.Offset, in units
DataOffset == 1

\* the two 32-bit halves of a unit: lo + HalfWord * hi
HalfWord == 4

WordBytes == 8

RecordTypeMmap == 1

RecordTypeLost == 2

RecordTypeComm == 3

RecordTypeExit == 4

RecordTypeThrottle == 5

RecordTypeUnthrottle == 6

RecordTypeFork == 7

RecordTypeRead == 8

RecordTypeSample == 9

recordTypeUserStart == 64

\* recordHeader.Size is a uint16 of bytes: 2^16 / 8 units
SizeMod == 8192

Min(a, b) == IF a < b THEN a ELSE b

Max(a, b) == IF a > b THEN a ELSE b

Range(s) == {s[i] : i \in 1..Len(s)}

\* the SampleFormat bits the model carries; a SampleFormat is a set of them
SampleFormatBits ==
    {"Identifier", "IP", "TID", "Time", "Addr", "ID", "StreamID", "CPU", "Period"}

sampleIDOffset(s) ==
    IF "Identifier" \in s THEN 0
    ELSE IF "ID" \notin s THEN -1
    ELSE WordBytes * Cardinality(s \cap {"IP", "TID", "Time", "Addr"})

recordIDOffset(s) ==
    IF "Identifier" \in s THEN -WordBytes
    ELSE IF "ID" \notin s THEN -1
    ELSE (-WordBytes) * Cardinality(s \cap {"CPU", "StreamID"}) - WordBytes

trailerBytes(s) ==
    WordBytes * Cardinality(s \cap {"TID", "Time", "ID", "StreamID", "CPU", "Identifier"})

\* one unit of the data section: a recordHeader (type, misc, size in units)
\* or a payload word v
Unit(v) == [type |-> 0, misc |-> 0, size |-> 0, v |-> v]

HeaderUnit(type, misc, size) == [type |-> type, misc |-> misc, size |-> size, v |-> 0]

\* two 32-bit fields in one unit, and back (bufDecoder.i32 / u32 twice)
Pair(lo, hi) == lo + HalfWord * hi

Lo(v) == v % HalfWord

Hi(v) == v \div HalfWord

----------------------------------------------------------------------------
(* The records perf writes.  A written record w has the type, the misc     *)
(* bits, the index ev of the event (attr) that produced it, and the values *)
(* id, time, pid and tid; the event's SampleFormat decides which of them   *)
(* are stored in a sample and in the sample_id trailer, in the kernel's    *)
(* order.                                                                  *)

\* the value the kernel stores for each SampleFormat bit
FieldValue(w) ==
    [b \in SampleFormatBits |->
        CASE b = "Identifier" -> w.id
          [] b = "IP"         -> 1
          [] b = "TID"        -> Pair(w.pid, w.tid)
          [] b = "Time"       -> w.time
          [] b = "Addr"       -> 2
          [] b = "ID"         -> w.id
          [] b = "StreamID"   -> w.id + 1
          [] b = "CPU"        -> Pair(1, 0)
          [] b = "Period"     -> 3]

\* the order of the fields of a sample (parseSample reads them in it)
SampleOrder ==
    <<"Identifier", "IP", "TID", "Time", "Addr", "ID", "StreamID", "CPU", "Period">>

\* the order of the fields of a sample_id trailer, as written
TrailerOrder == <<"TID", "Time", "ID", "StreamID", "CPU", "Identifier">>

RECURSIVE Pick(_, _, _)
Pick(order, fmt, val) ==
    IF order = <<>> THEN <<>>
    ELSE (IF Head(order) \in fmt THEN <<Unit(val[Head(order)])>> ELSE <<>>)
         \o Pick(Tail(order), fmt, val)

\* the body of a written record, before any trailer
Body(fmt, w) ==
    CASE w.type = RecordTypeSample -> Pick(SampleOrder, fmt, FieldValue(w))
      [] w.type = RecordTypeMmap ->
            <<Unit(Pair(w.pid, w.tid)), Unit(0), Unit(1), Unit(0), Unit(1)>>
      [] w.type = RecordTypeLost -> <<Unit(w.id), Unit(1)>>
      [] w.type = RecordTypeComm -> <<Unit(Pair(w.pid, w.tid)), Unit(1)>>
      [] w.type \in {RecordTypeExit, RecordTypeFork} ->
            <<Unit(Pair(w.pid, w.pid)), Unit(Pair(w.tid, w.tid)), Unit(w.time)>>
      [] w.type \in {RecordTypeThrottle, RecordTypeUnthrottle} ->
            <<Unit(w.time), Unit(w.id), Unit(w.id + 1)>>
      [] OTHER -> <<Unit(w.time)>>

\* the kernel appends a sample_id trailer to every non-sample record of its
\* own when the event has sample_id_all
HasTrailer(attr, w) ==
    attr.SampleIDAll /\ w.type # RecordTypeSample /\ w.type < recordTypeUserStart

Payload(attr, w) ==
    Body(attr.SampleFormat, w)
    \o (IF HasTrailer(attr, w)
        THEN Pick(TrailerOrder, attr.SampleFormat, FieldValue(w)) ELSE <<>>)

\* a written record: header, then payload
Encode(attrs, w) ==
    LET p == Payload(attrs[w.ev], w)
    IN  <<HeaderUnit(w.type, w.misc, 1 + Len(p))>> \o p

RECURSIVE EncodeAll(_, _)
EncodeAll(attrs, ws) ==
    IF ws = <<>> THEN <<>> ELSE Encode(attrs, Head(ws)) \o EncodeAll(attrs, Tail(ws))

----------------------------------------------------------------------------
(* perffile.parseCPUSet and CPUSet.String *)
(*                                                                         *)
(* A Go string is a sequence of one-character strings.                     *)

\* CPU indexes written in the strings explored are 0..MaxCPU and Base
MaxCPU == 3

\* number of comma-separated parts of the strings explored
MaxParts == 2

\* strconv.Atoi reads decimal, fmt's %d writes it
Base == 10

Digits == <<"0", "1", "2", "3", "4", "5", "6", "7", "8", "9">>

DigitVal(c) == (CHOOSE i \in 1..Base : Digits[i] = c) - 1

\* the value of a non-empty sequence of digits
RECURSIVE Value(_)
Value(ds) ==
    IF Len(ds) = 1 THEN DigitVal(ds[1])
    ELSE Base * Value(SubSeq(ds, 1, Len(ds) - 1)) + DigitVal(ds[Len(ds)])

\* strconv.Atoi(s): an optional sign and at least one digit
Atoi(s) ==
    LET signed == s # <<>> /\ s[1] \in {"+", "-"}
        ds     == IF signed THEN Tail(s) ELSE s
    IN  IF ds = <<>> \/ \E i \in 1..Len(ds) : ds[i] \notin Range(Digits)
        THEN [ok |-> FALSE, v |-> 0]
        ELSE [ok |-> TRUE,
              v  |-> IF signed /\ s[1] = "-" THEN -Value(ds) ELSE Value(ds)]

\* fmt.Sprintf("%d", n)
RECURSIVE Itoa(_)
Itoa(n) ==
    IF n < 0 THEN <<"-">> \o Itoa(-n)
    ELSE IF n < Base THEN <<Digits[n + 1]>>
    ELSE Itoa(n \div Base) \o <<Digits[(n % Base) + 1]>>

\* strings.Index(r, c): the index of the first c in r, from 0, or -1
Index(r, c) ==
    IF \E i \in 1..Len(r) : r[i] = c
    THEN (CHOOSE i \in 1..Len(r) : r[i] = c /\ \A k \in 1..(i - 1) : r[k] # c) - 1
    ELSE -1

\* strings.Split(str, c)
RECURSIVE Split(_, _)
Split(str, c) ==
    IF Index(str, c) = -1 THEN <<str>>
    ELSE <<SubSeq(str, 1, Index(str, c))>>
         \o Split(SubSeq(str, Index(str, c) + 2, Len(str)), c)

\* "for cpu := lo; cpu <= hi; cpu++ { out = append(out, cpu) }"
Expand(lo, hi) == [i \in 1..(IF hi >= lo THEN hi - lo + 1 ELSE 0) |-> lo + i - 1]

\* one part of the string: lo and hi, or the error of strconv.Atoi
parsePart(r) ==
    LET dash == Index(r, "-")
        lo   == Atoi(IF dash = -1 THEN r ELSE SubSeq(r, 1, dash))
        hi   == IF dash = -1 THEN lo ELSE Atoi(SubSeq(r, dash + 2, Len(r)))
    IN  [ok |-> lo.ok /\ hi.ok, lo |-> lo.v, hi |-> hi.v]

\* parseCPUSet's loop over the parts: (out, nil) or (nil, err)
RECURSIVE parseParts(_, _)
parseParts(parts, out) ==
    IF parts = <<>> THEN [ok |-> TRUE, out |-> out]
    ELSE IF ~parsePart(Head(parts)).ok THEN [ok |-> FALSE, out |-> <<>>]
    ELSE parseParts(Tail(parts),
                    out \o Expand(parsePart(Head(parts)).lo, parsePart(Head(parts)).hi))

\* sort.Ints
RECURSIVE InsertInt(_, _)
InsertInt(x, s) ==
    IF s = <<>> THEN <<x>>
    ELSE IF x <= Head(s) THEN <<x>> \o s
    ELSE <<Head(s)>> \o InsertInt(x, Tail(s))

RECURSIVE SortInts(_)
SortInts(s) == IF s = <<>> THEN <<>> ELSE InsertInt(Head(s), SortInts(Tail(s)))

\* parseCPUSet's last loop, "i, j := 0, 0; for ; i < len(out); i++", on
\* indexes from 0; what it returns is out, at its full length
RECURSIVE Dedup(_, _, _)
Dedup(out, i, j) ==
    IF i >= Len(out) THEN out
    ELSE IF i # j /\ out[i + 1] = out[j + 1] THEN Dedup(out, i + 1, j)
    ELSE Dedup([out EXCEPT ![j + 1] = out[i + 1]], i + 1, j + 1)

parseSorted(res) ==
    IF res.ok THEN [ok |-> TRUE, out |-> Dedup(SortInts(res.out), 0, 0)] ELSE res

parseCPUSet(str) == parseSorted(parseParts(Split(str, ","), <<>>))

\* the closure flush of CPUSet.String
flush(out, lo, hi) ==
    IF lo = hi THEN out \o <<",">> \o Itoa(lo)
    ELSE out \o <<",">> \o Itoa(lo) \o <<"-">> \o Itoa(hi)

\* the loop of CPUSet.String over c[k..], then the last flush and out[1:]
RECURSIVE StringLoop(_, _, _, _, _)
StringLoop(c, k, out, lo, hi) ==
    IF k > Len(c) THEN Tail(flush(out, lo, hi))
    ELSE IF c[k] = hi + 1 THEN StringLoop(c, k + 1, out, lo, c[k])
    ELSE StringLoop(c, k + 1, flush(out, lo, hi), c[k], c[k])

\* CPUSet.String
String(c) == IF Len(c) = 0 THEN <<>> ELSE StringLoop(c, 1, <<>>, c[1], c[1] - 1)

----------------------------------------------------------------------------
(* perffile.New *)

\* a *EventAttr: nil, &file.attrs[i].Attr (which is file.Events[i]), or the
\* address of the range variable of New's ID loop.  With one range variable
\* per loop (Go before 1.22) i is 0 and the variable holds the last attr;
\* with one per iteration (Go 1.22) i is the iteration.
NilAttr == [k |-> "nil", i |-> 0]

AttrsPtr(i) == [k |-> "attrs", i |-> i]

LoopVarPtr(i) == [k |-> "loopvar", i |-> i]

NoFile == [kind |-> "none"]

\* the last attr whose ID list holds id (later entries overwrite earlier
\* ones in the map), 0 if none
Owner(attrs, id) ==
    LET js == {j \in 1..Len(attrs) : id \in Range(attrs[j].IDs)}
    IN  IF js = {} THEN 0 ELSE CHOOSE j \in js : \A k \in js : k <= j

\* New's loop "for _, attr := range file.attrs { ... file.idToAttr[id] =
\* &attr.Attr }"
BuildIDToAttr(attrs, perIter) ==
    [id \in 0..MaxID |->
        IF Owner(attrs, id) = 0 THEN NilAttr
        ELSE LoopVarPtr(IF perIter THEN Owner(attrs, id) ELSE 0)]

\* the file header New reads first: whether the file holds all of it, the
\* magic, hdr.Size and hdr.AttrSize
Header(complete, magic, size, attrSize) ==
    [Complete |-> complete, Magic |-> magic, Size |-> size, AttrSize |-> attrSize]

\* binary.Size(&file.hdr), in bytes
HeaderBytes == 104

\* the header perf writes
GoodHeader == Header(TRUE, "PERFILE2", HeaderBytes, 1)

\* a check of the magic that also takes the big-endian magic
MagicErrAnyEndian(magic) ==
    IF magic \in {"PERFILE2", "2ELIFREP"} THEN "nil"
    ELSE IF magic = "PERFFILE" THEN "version 1 profiles not supported"
    ELSE "bad or unsupported file magic"

\* New's switch on the magic
MagicErr(magic) ==
    CASE magic = "PERFILE2" -> "nil"
      [] magic = "2ELIFREP" -> "big endian profiles not supported"
      [] magic = "PERFFILE" -> "version 1 profiles not supported"
      [] OTHER -> "bad or unsupported file magic"

\* New's checks of the header and of the number of attrs, in the code's
\* order, before it reads any attr
HeaderErr(d) ==
    IF ~d.hdr.Complete THEN "unexpected EOF"
    ELSE IF MagicErr(d.hdr.Magic) # "nil" THEN MagicErr(d.hdr.Magic)
    ELSE IF d.hdr.Size # HeaderBytes THEN "bad header size"
    ELSE IF d.dataSize = 0 THEN "truncated data file"
    ELSE IF d.hdr.AttrSize = 0 THEN "bad attr size 0"
    ELSE IF Len(d.attrs) = 0 THEN "no event types"
    ELSE "nil"

\* a check of an attr against the first one that looks at the ID offsets
\* only
IncompatibleOffsets(first, a) ==
    \/ sampleIDOffset(a.SampleFormat) = -1
    \/ sampleIDOffset(a.SampleFormat) # sampleIDOffset(first.SampleFormat)
    \/ recordIDOffset(a.SampleFormat) = -1
    \/ recordIDOffset(a.SampleFormat) # recordIDOffset(first.SampleFormat)

\* the body of New's loop over the attrs of a file with several: attr a
\* does not go with the first attr
Incompatible(first, a) ==
    \/ sampleIDOffset(a.SampleFormat) = -1
    \/ sampleIDOffset(a.SampleFormat) # sampleIDOffset(first.SampleFormat)
    \/ recordIDOffset(a.SampleFormat) = -1
    \/ recordIDOffset(a.SampleFormat) # recordIDOffset(first.SampleFormat)
    \/ a.SampleIDAll # first.SampleIDAll
    \/ a.ReadFormat # first.ReadFormat

\* New's checks of the header and the attrs, in the code's order: the
\* error it returns, or "nil"
EventsErr(d) ==
    IF HeaderErr(d) # "nil" THEN HeaderErr(d)
    ELSE IF Len(d.attrs) = 1 THEN "nil"
    ELSE IF \A i \in 1..Len(d.attrs) : d.attrs[i].IDs = <<>>
        THEN "multiple EventAttrs, but no IDs"
    ELSE IF \E i \in 1..Len(d.attrs) : Incompatible(d.attrs[1], d.attrs[i])
        THEN "incompatible events"
    ELSE IF "Read" \in d.attrs[1].SampleFormat /\ "ID" \notin d.attrs[1].ReadFormat
        THEN "bad event read format"
    ELSE "nil"

\* A feature section of the file: the feature bit it belongs to, whether
\* the file holds all the bytes its fileSection names, and its content.
Section(feature, whole, data) == [feature |-> feature, whole |-> whole, data |-> data]

\* the FileMeta of a new File
ZeroMeta == [Hostname |-> <<>>, CoreGroups |-> <<>>, ThreadGroups |-> <<>>]

\* FileMeta.parse returned nil
NoErr == "nil"

\* the loops of parseCPUTopology: a list as long as strs, filled up to the
\* first string parseCPUSet refuses and nil from there on
parseGroups(strs) ==
    [ok   |-> \A k \in 1..Len(strs) : parseCPUSet(strs[k]).ok,
     sets |-> [i \in 1..Len(strs) |->
                  IF \A k \in 1..i : parseCPUSet(strs[k]).ok
                  THEN parseCPUSet(strs[i]).out ELSE <<>>]]

\* m.parseCPUTopology(bd): m afterwards and the error
parseCPUTopology(m, data) ==
    IF ~parseGroups(data.cores).ok
    THEN [m   |-> [m EXCEPT !.CoreGroups = parseGroups(data.cores).sets],
          err |-> "strconv.Atoi"]
    ELSE [m   |-> [m EXCEPT !.CoreGroups = parseGroups(data.cores).sets,
                            !.ThreadGroups = parseGroups(data.threads).sets],
          err |-> IF parseGroups(data.threads).ok THEN NoErr ELSE "strconv.Atoi"]

\* m.parse(f, sec, r): m afterwards and the error
parse(m, sec) ==
    IF sec.feature \notin {"Hostname", "CPUTopology"} THEN [m |-> m, err |-> NoErr]
    ELSE IF ~sec.whole THEN [m |-> m, err |-> "EOF"]
    ELSE IF sec.feature = "Hostname"
        THEN [m |-> [m EXCEPT !.Hostname = sec.data], err |-> NoErr]
    ELSE parseCPUTopology(m, sec.data)

\* New's loop over the feature bits: file.Meta.parse(bit, sec, file.r) for
\* every section, in the order of the bits
RECURSIVE LoadMeta(_, _)
LoadMeta(m, secs) ==
    IF secs = <<>> THEN m ELSE LoadMeta(parse(m, Head(secs)).m, Tail(secs))

\* New's reads of the table of feature sections that follows the data
FeaturesErr(d) == IF d.featTable < Len(d.features) THEN "unexpected EOF" ELSE "nil"

\* New's checks, in the code's order: the error it returns, or "nil"
NewErr(d) == IF EventsErr(d) # "nil" THEN EventsErr(d) ELSE FeaturesErr(d)

\* the parts of the file New has read when it returns
NewSections(d) ==
    IF ~d.hdr.Complete THEN {}
    ELSE IF HeaderErr(d) # "nil" THEN {"header"}
    ELSE IF EventsErr(d) # "nil" THEN {"header", "attrs", "ids"}
    ELSE {"header", "attrs", "ids", "features"}

\* the File New returns when NewErr is "nil"
NewFile(d) ==
    [kind           |-> "file",
     attrs          |-> d.attrs,
     idToAttr       |-> BuildIDToAttr(d.attrs, d.perIter),
     perIter        |-> d.perIter,
     sampleIDOffset |-> sampleIDOffset(d.attrs[1].SampleFormat),
     recordIDOffset |-> recordIDOffset(d.attrs[1].SampleFormat),
     sampleIDAll    |-> d.attrs[1].SampleIDAll,
     dataOffset     |-> DataOffset,
     dataSize       |-> d.dataSize,
     Meta           |-> LoadMeta(ZeroMeta, d.features),
     r              |-> d.units]

\* the EventAttr a pointer points to
AttrAt(f, p) ==
    IF p.k = "attrs" THEN f.attrs[p.i]
    ELSE IF p.i = 0 THEN f.attrs[Len(f.attrs)]
    ELSE f.attrs[p.i]

----------------------------------------------------------------------------
(* bufferedSectionReader over the io.SectionReader of the data section     *)
(*                                                                         *)
(* f.r holds the units of the data section that are physically in the      *)
(* file; the header's Data.Size may promise more.  A reader state b has    *)
(* buf = b.buf[0:w], r, w, err, pos, and off, the offset of b.rd.          *)

newBufferedSectionReader ==
    [buf |-> <<>>, r |-> 0, w |-> 0, err |-> "nil", pos |-> 0, off |-> 0]

\* io.SectionReader.Read of n units at offset off: it trims the request to
\* the section, and the ReaderAt below returns what the file has, with
\* io.EOF when that is less
SectionRead(f, off, n) ==
    IF off >= f.dataSize THEN [n |-> 0, err |-> "EOF"]
    ELSE LET want == Min(n, f.dataSize - off)
             got  == Max(0, Min(want, Len(f.r) - off))
         IN  [n |-> got, err |-> IF got < want THEN "EOF" ELSE "nil"]

SectionData(f, off, n) == SubSeq(f.r, off + 1, off + n)

\* fill: slide what is left to the front, read once into the rest
fill(f, b) ==
    LET left == b.w - b.r
        res  == SectionRead(f, b.off, BufUnits - left)
    IN  [b EXCEPT !.buf = SubSeq(b.buf, b.r + 1, b.w) \o SectionData(f, b.off, res.n),
                  !.r = 0,
                  !.w = left + res.n,
                  !.off = b.off + res.n,
                  !.err = IF res.err # "nil" THEN res.err ELSE b.err]

\* the end of Read: "n = copy(p, b.buf[b.r:b.w])" from the buffer b1 that
\* fill may have refilled
readBuffered(b1, n) ==
    LET k == Min(n, b1.w - b1.r)
    IN  IF b1.r = b1.w
        THEN [b |-> [b1 EXCEPT !.err = "nil"], n |-> 0, err |-> b1.err,
              data |-> <<>>]
        ELSE [b |-> [b1 EXCEPT !.r = b1.r + k, !.pos = b1.pos + k],
              n |-> k, err |-> "nil",
              data |-> SubSeq(b1.buf, b1.r + 1, b1.r + k)]

\* Read(p) with len(p) = n: the reader afterwards, the count, the error and
\* the units read.  readErr returns b.err and clears it.
Read(f, b, n) ==
    IF n = 0 \/ (b.r = b.w /\ b.err # "nil")
    THEN [b |-> [b EXCEPT !.err = "nil"], n |-> 0, err |-> b.err, data |-> <<>>]
    ELSE IF b.r = b.w /\ n >= BufUnits
    THEN LET res == SectionRead(f, b.off, n)
         IN  [b |-> [b EXCEPT !.off = b.off + res.n, !.pos = b.pos + res.n,
                              !.err = "nil"],
              n |-> res.n, err |-> res.err, data |-> SectionData(f, b.off, res.n)]
    ELSE readBuffered(IF b.r = b.w THEN fill(f, b) ELSE b, n)

\* Seek(offset, whence) for whence 0 (absolute) and 1 (relative)
Seek(b, offset, whence) ==
    IF (whence = 0 /\ offset = b.pos) \/ (whence = 1 /\ offset = 0)
    THEN [b |-> b, pos |-> b.pos, err |-> "nil"]
    ELSE LET abs == IF whence = 0 THEN offset ELSE b.off + offset
         IN  IF abs < 0
             THEN [b |-> [b EXCEPT !.pos = 0], pos |-> 0, err |-> "negative position"]
             ELSE [b |-> [b EXCEPT !.pos = abs, !.off = abs, !.r = 0, !.w = 0,
                                   !.buf = <<>>],
                   pos |-> abs, err |-> "nil"]

\* io.ReadFull(b, p) with len(p) = want, having read acc so far; ReadMore
\* is the loop of io.ReadAtLeast after a Read that returned res
RECURSIVE ReadFull(_, _, _, _)
RECURSIVE ReadMore(_, _, _, _)
ReadFull(f, b, want, acc) ==
    IF Len(acc) >= want THEN [b |-> b, data |-> acc, err |-> "nil"]
    ELSE ReadMore(f, want, acc, Read(f, b, want - Len(acc)))

ReadMore(f, want, acc, res) ==
    LET acc1 == acc \o res.data
    IN  IF res.err = "nil" THEN ReadFull(f, res.b, want, acc1)
        ELSE [b |-> res.b, data |-> acc1,
              err |-> IF Len(acc1) >= want THEN "nil"
                      ELSE IF Len(acc1) > 0 /\ res.err = "EOF"
                           THEN "ErrUnexpectedEOF" ELSE res.err]

----------------------------------------------------------------------------
(* Records: decoding one record *)

NilRecord == [kind |-> "nil"]

\* var common RecordCommon
ZeroCommon ==
    [Offset |-> 0, Format |-> {}, EventAttr |-> NilAttr, PID |-> 0, TID |-> 0,
     Time |-> 0, ID |-> 0, StreamID |-> 0, CPU |-> 0, Res |-> 0]

\* r.f.idToAttr[id]: nil for a key that is not in the map
Lookup(f, id) == IF id \in DOMAIN f.idToAttr THEN f.idToAttr[id] ELSE NilAttr

\* a lookup by ID alone, without the rule for files of one event
getAttrByID(f, id, nilOk) ==
    IF Lookup(f, id) # NilAttr THEN [attr |-> Lookup(f, id), err |-> "nil"]
    ELSE [attr |-> NilAttr,
          err |-> IF nilOk THEN "nil"
                  ELSE "event has unknown eventAttr ID " \o ToString(id)]

\* getAttr(id, nilOk): the pointer it returns and the error it leaves in
\* r.err ("nil" when it sets none)
getAttr(f, id, nilOk) ==
    IF Len(f.attrs) = 1 \/ id = 0 THEN [attr |-> AttrsPtr(1), err |-> "nil"]
    ELSE IF Lookup(f, id) # NilAttr THEN [attr |-> Lookup(f, id), err |-> "nil"]
    ELSE [attr |-> NilAttr,
          err |-> IF nilOk THEN "nil"
                  ELSE "event has unknown eventAttr ID " \o ToString(id)]

\* the fields parseCommon reads from the trailer, in its order
CommonOrder == <<"TID", "Time", "ID", "StreamID", "CPU">>

\* bufDecoder reading the fields of order that are in fmt one after the
\* other (u64If, i32If, u32If): the unit read for bit, 0 when bit is not in
\* fmt
FieldIf(buf, order, fmt, bit) ==
    LET i == CHOOSE k \in 1..Len(order) : order[k] = bit
        n == Cardinality({k \in 1..(i - 1) : order[k] \in fmt})
    IN  IF bit \in fmt THEN buf[n + 1].v ELSE 0

\* the reads run past the end of the buffer: index out of range
Short(buf, order, fmt) == Cardinality(fmt \cap Range(order)) > Len(buf)

Parsed(rec, err) == [rec |-> rec, err |-> err, panic |-> FALSE]

Panicked == [rec |-> NilRecord, err |-> "nil", panic |-> TRUE]

\* parseCommon(bd, o, missingOk); rec is the RecordCommon afterwards
parseCommon(f, buf, o, missingOk) ==
    LET idx == Len(buf) + (f.recordIDOffset \div WordBytes) + 1
        id  == IF f.recordIDOffset = -1 THEN 0 ELSE buf[idx].v
        ga  == getAttr(f, id, missingOk /\ id = 0)
        t   == AttrAt(f, ga.attr).SampleFormat
        commonLen == trailerBytes(t) \div WordBytes
        tr  == SubSeq(buf, Len(buf) - commonLen + 1, Len(buf))
    IN  IF f.recordIDOffset # -1 /\ idx < 1 THEN Panicked
        ELSE IF ga.attr = NilAttr THEN Parsed([o EXCEPT !.ID = id], ga.err)
        ELSE IF commonLen > Len(buf) THEN Panicked
        ELSE Parsed([o EXCEPT !.ID = id,
                              !.EventAttr = ga.attr,
                              !.Format = t,
                              !.PID = Lo(FieldIf(tr, CommonOrder, t, "TID")),
                              !.TID = Hi(FieldIf(tr, CommonOrder, t, "TID")),
                              !.Time = FieldIf(tr, CommonOrder, t, "Time"),
                              !.StreamID = FieldIf(tr, CommonOrder, t, "StreamID"),
                              !.CPU = Lo(FieldIf(tr, CommonOrder, t, "CPU")),
                              !.Res = Hi(FieldIf(tr, CommonOrder, t, "CPU"))],
                    "nil")

MkRecord(kind, common, body) == [kind |-> kind, common |-> common, body |-> body]

parseMmap(f, buf, hdr, common) ==
    IF Len(buf) < 5 THEN Panicked
    ELSE Parsed(MkRecord("RecordMmap",
                    [common EXCEPT !.Format = @ \cup {"TID"},
                                   !.PID = Lo(buf[1].v), !.TID = Hi(buf[1].v)],
                    [Addr |-> buf[2].v, Len |-> buf[3].v, FileOffset |-> buf[4].v,
                     Filename |-> buf[5].v]),
                "nil")

parseLost(f, buf, hdr, common) ==
    IF Len(buf) < 2 THEN Panicked
    ELSE LET ga == getAttr(f, buf[1].v, FALSE)
         IN  Parsed(MkRecord("RecordLost",
                        [common EXCEPT !.Format = @ \cup {"ID"},
                                       !.ID = buf[1].v, !.EventAttr = ga.attr],
                        [NumLost |-> buf[2].v]),
                    ga.err)

parseComm(f, buf, hdr, common) ==
    IF Len(buf) < 2 THEN Panicked
    ELSE Parsed(MkRecord("RecordComm",
                    [common EXCEPT !.Format = @ \cup {"TID"},
                                   !.PID = Lo(buf[1].v), !.TID = Hi(buf[1].v)],
                    [Comm |-> buf[2].v]),
                "nil")

\* parseExit and parseFork read the same fields
parseExitFork(buf, common, kind) ==
    IF Len(buf) < 3 THEN Panicked
    ELSE Parsed(MkRecord(kind,
                    [common EXCEPT !.Format = @ \cup {"TID", "Time"},
                                   !.PID = Lo(buf[1].v), !.TID = Lo(buf[2].v),
                                   !.Time = buf[3].v],
                    [PPID |-> Hi(buf[1].v), PTID |-> Hi(buf[2].v)]),
                "nil")

parseExit(f, buf, hdr, common) == parseExitFork(buf, common, "RecordExit")

parseFork(f, buf, hdr, common) == parseExitFork(buf, common, "RecordFork")

parseThrottle(f, buf, hdr, common, enable) ==
    IF Len(buf) < 3 THEN Panicked
    ELSE LET id == buf[2].v
             ga == IF Lookup(f, id) = NilAttr /\ Lookup(f, 0) # NilAttr
                   THEN [attr |-> Lookup(f, 0), err |-> "nil"]
                   ELSE getAttr(f, id, FALSE)
         IN  Parsed(MkRecord("RecordThrottle",
                        [common EXCEPT !.Format = @ \cup {"Time", "ID", "StreamID"},
                                       !.Time = buf[1].v,
                                       !.EventAttr = ga.attr,
                                       !.StreamID = buf[3].v],
                        [Enable |-> enable]),
                    ga.err)

parseSample(f, buf, hdr, common) ==
    LET idx == (f.sampleIDOffset \div WordBytes) + 1
        id  == IF f.sampleIDOffset = -1 THEN 0 ELSE buf[idx].v
        ga  == getAttr(f, id, FALSE)
        t   == AttrAt(f, ga.attr).SampleFormat
    IN  IF f.sampleIDOffset # -1 /\ idx > Len(buf) THEN Panicked
        ELSE IF ga.attr = NilAttr THEN Parsed(NilRecord, ga.err)
        ELSE IF Short(buf, SampleOrder, t) THEN Panicked
        ELSE Parsed(MkRecord("RecordSample",
                        [common EXCEPT !.ID = id,
                                       !.EventAttr = ga.attr,
                                       !.Format = t,
                                       !.PID = Lo(FieldIf(buf, SampleOrder, t, "TID")),
                                       !.TID = Hi(FieldIf(buf, SampleOrder, t, "TID")),
                                       !.Time = FieldIf(buf, SampleOrder, t, "Time"),
                                       !.StreamID = FieldIf(buf, SampleOrder, t, "StreamID"),
                                       !.CPU = Lo(FieldIf(buf, SampleOrder, t, "CPU")),
                                       !.Res = Hi(FieldIf(buf, SampleOrder, t, "CPU"))],
                        [IP |-> FieldIf(buf, SampleOrder, t, "IP"),
                         Addr |-> FieldIf(buf, SampleOrder, t, "Addr"),
                         Period |-> FieldIf(buf, SampleOrder, t, "Period"),
                         CPUMode |-> hdr.Misc]),
                    "nil")

\* a RecordUnknown without its payload
RecordUnknownNoData(hdr, common, buf) ==
    [kind |-> "RecordUnknown", common |-> common,
     body |-> [hdr |-> hdr, Data |-> <<>>]]

\* &RecordUnknown{hdr, common, bd.buf}
RecordUnknown(hdr, common, buf) ==
    [kind |-> "RecordUnknown", common |-> common,
     body |-> [hdr |-> hdr, Data |-> buf]]

\* Next's switch on hdr.Type, for the record types the model carries
parseRecord(f, buf, hdr, common) ==
    CASE hdr.Type = RecordTypeMmap       -> parseMmap(f, buf, hdr, common)
      [] hdr.Type = RecordTypeLost       -> parseLost(f, buf, hdr, common)
      [] hdr.Type = RecordTypeComm       -> parseComm(f, buf, hdr, common)
      [] hdr.Type = RecordTypeExit       -> parseExit(f, buf, hdr, common)
      [] hdr.Type = RecordTypeThrottle   -> parseThrottle(f, buf, hdr, common, TRUE)
      [] hdr.Type = RecordTypeUnthrottle -> parseThrottle(f, buf, hdr, common, FALSE)
      [] hdr.Type = RecordTypeFork       -> parseFork(f, buf, hdr, common)
      [] hdr.Type = RecordTypeSample     -> parseSample(f, buf, hdr, common)
      [] OTHER -> Parsed(RecordUnknown(hdr, common, buf), "nil")

----------------------------------------------------------------------------
(* Records.Next and File.Records *)

NoRecords == [kind |-> "none"]

\* r.order: nil, or the offsets still to be read
NilOrder == [set |-> FALSE, pos |-> <<>>]

\* &Records{f: f, sr: newBufferedSectionReader(...), order: order}
NewRecords(order) ==
    [kind |-> "records", sr |-> newBufferedSectionReader, err |-> "nil",
     order |-> order, Record |-> NilRecord]

\* an iterator that has lost the error of the first pass
DroppedError(err) == NewRecords([set |-> TRUE, pos |-> <<>>])

\* &Records{err: err}
FailedRecords(err) == [NewRecords(NilOrder) EXCEPT !.err = err]

Returned(it, ok) == [rs |-> it, ok |-> ok, panic |-> FALSE]

\* "if r.err != nil { return false }" at the top of Next
Failed(it) == it.err # "nil"

\* the end of Next: r.Record is set and "if r.err != nil { return false }"
nextReturn(it, c, pr) ==
    LET err == IF pr.err # "nil" THEN pr.err
               ELSE IF c.err # "nil" THEN c.err ELSE it.err
    IN  IF pr.panic THEN [rs |-> it, ok |-> FALSE, panic |-> TRUE]
        ELSE Returned([it EXCEPT !.Record = pr.rec, !.err = err], err = "nil")

\* Next's switch on hdr.Type, after parseCommon returned c
nextSwitch(f, it, hdr, buf, c) ==
    IF c.panic THEN [rs |-> it, ok |-> FALSE, panic |-> TRUE]
    ELSE nextReturn(it, c, parseRecord(f, buf, hdr, c.rec))

\* Next after io.ReadFull of the payload returned p: parseCommon for the
\* records that carry a sample_id trailer
nextPayload(f, it, common, hdr, p) ==
    IF p.err # "nil" THEN Returned([it EXCEPT !.sr = p.b, !.err = p.err], FALSE)
    ELSE nextSwitch(f, [it EXCEPT !.sr = p.b], hdr, p.data,
                    IF f.sampleIDAll /\ hdr.Type # RecordTypeSample
                       /\ hdr.Type < recordTypeUserStart
                    THEN parseCommon(f, p.data, common, hdr.Type = RecordTypeMmap)
                    ELSE Parsed(common, "nil"))

\* Next after binary.Read of the header returned h: io.EOF ends the
\* iteration without error; rlen is hdr.Size less the header, a uint16
nextHeader(f, it, common, h) ==
    LET hdr == [Type |-> h.data[1].type, Misc |-> h.data[1].misc,
                Size |-> h.data[1].size]
    IN  IF h.err # "nil"
        THEN Returned([it EXCEPT !.sr = h.b,
                                 !.err = IF h.err = "EOF" THEN @ ELSE h.err],
                      FALSE)
        ELSE nextPayload(f, it, common, hdr,
                         ReadFull(f, h.b, (hdr.Size - 1) % SizeMod, <<>>))

\* Next after the Seek to the next offset of r.order returned sk (a Seek
\* that did nothing when r.order is nil): common.Offset, then the header
nextSeek(f, it, sk) ==
    LET rs1 == [it EXCEPT !.order.pos = IF it.order.set THEN Tail(@) ELSE @,
                          !.sr = sk.b,
                          !.err = IF it.order.set THEN sk.err ELSE @]
    IN  IF sk.err # "nil" THEN Returned(rs1, FALSE)
        ELSE nextHeader(f, rs1,
                        [ZeroCommon EXCEPT
                            !.Offset = Seek(sk.b, 0, 1).pos + f.dataOffset],
                        ReadFull(f, sk.b, 1, <<>>))

\* r.Next(): the iterator afterwards, the value returned, and whether the
\* call panicked instead of returning
RecordsNext(f, it) ==
    IF Failed(it) THEN Returned(it, FALSE)
    ELSE IF it.order.set /\ it.order.pos = <<>> THEN Returned(it, FALSE)
    ELSE nextSeek(f, it,
                  IF it.order.set
                  THEN Seek(it.sr, Head(it.order.pos) - f.dataOffset, 0)
                  ELSE [b |-> it.sr, pos |-> it.sr.pos, err |-> "nil"])

\* a comparison that also holds for equal time stamps
LessOrEqual(s, i, j) == s.ts[i] <= s.ts[j]

\* a swap that leaves the time stamps where they are
SwapPosOnly(s, i, j) ==
    [pos |-> [s.pos EXCEPT ![i] = s.pos[j], ![j] = s.pos[i]], ts |-> s.ts]

\* timeSorter
Less(s, i, j) == s.ts[i] < s.ts[j]

Swap(s, i, j) ==
    [pos |-> [s.pos EXCEPT ![i] = s.pos[j], ![j] = s.pos[i]],
     ts  |-> [s.ts EXCEPT ![i] = s.ts[j], ![j] = s.ts[i]]]

\* sort.Stable on fewer than 20 elements is one insertion sort:
\*   for i := a + 1; i < b; i++ {
\*       for j := i; j > a && data.Less(j, j-1); j-- { data.Swap(j, j-1) } }
RECURSIVE Sink(_, _)
Sink(s, j) == IF j > 1 /\ Less(s, j, j - 1) THEN Sink(Swap(s, j, j - 1), j - 1) ELSE s

RECURSIVE insertionSort(_, _)
insertionSort(s, i) == IF i > Len(s.pos) THEN s ELSE insertionSort(Sink(s, i), i + 1)

Stable(s) == insertionSort(s, 2)

\* the first pass of File.Records: "for rs.Next() { pos = append(pos,
\* c.Offset); ts = append(ts, c.Time) }"; firstPassBody is the loop after a
\* Next that returned n
RECURSIVE FirstPass(_, _, _)
RECURSIVE firstPassBody(_, _, _)
FirstPass(f, it, s) == firstPassBody(f, s, RecordsNext(f, it))

firstPassBody(f, s, n) ==
    IF n.panic \/ ~n.ok THEN [rs |-> n.rs, s |-> s, panic |-> n.panic]
    ELSE FirstPass(f, n.rs,
                   [pos |-> Append(s.pos, n.rs.Record.common.Offset),
                    ts  |-> Append(s.ts, n.rs.Record.common.Time)])

Orders == {"RecordsFileOrder", "RecordsCausalOrder", "RecordsTimeOrder"}

\* File.Records after its first pass ended as fp: the error of the pass,
\* or the offsets sorted by time
sortedRecords(fp) ==
    IF fp.panic THEN [rs |-> NoRecords, panic |-> TRUE]
    ELSE IF fp.rs.err # "nil"
    THEN [rs |-> FailedRecords(fp.rs.err), panic |-> FALSE]
    ELSE [rs |-> NewRecords([set |-> TRUE, pos |-> Stable(fp.s).pos]),
          panic |-> FALSE]

\* f.Records(order): the iterator returned, or a panic of the first pass
FileRecords(f, order) ==
    IF order = "RecordsFileOrder"
    THEN [rs |-> NewRecords(NilOrder), panic |-> FALSE]
    ELSE sortedRecords(FirstPass(f, NewRecords(NilOrder),
                                 [pos |-> <<>>, ts |-> <<>>]))

----------------------------------------------------------------------------
(* The perf.data files explored *)

Attr(fmt, idAll, ids) ==
    [SampleFormat |-> fmt, SampleIDAll |-> idAll, ReadFormat |-> {}, IDs |-> ids]

Written(type, ev, id, time) ==
    [type |-> type, misc |-> 0, ev |-> ev, id |-> id, time |-> time,
     pid |-> 1, tid |-> 1]

\* What is on disk: the attrs, the units of the data section the file
\* holds, the Data.Size of the header and the semantics of the range
\* variable the build gives New.  An "intact" file holds what its header
\* says; a "short" one lacks data the header promises after the last whole
\* record; a "torn" one lacks the last unit of its last record.
Disk(attrs, ws, damage, perIter) ==
    LET u == EncodeAll(attrs, ws)
    IN  [attrs    |-> attrs,
         units    |-> IF damage = "torn" THEN SubSeq(u, 1, Len(u) - 1) ELSE u,
         dataSize |-> Len(u) + (IF damage = "short" THEN 1 ELSE 0),
         hdr      |-> GoodHeader,
         features |-> <<>>,
         featTable |-> 0,
         perIter  |-> perIter]

Damages == {"intact", "short", "torn"}

\* Files of one event without IDs whose records differ in their time stamps
OrderTables == {<<Attr({"IP", "TID", "Time"}, idAll, <<>>)>> : idAll \in BOOLEAN}

OrderWritten ==
    {Written(RecordTypeSample, 1, 0, t) : t \in 0..MaxTime}
    \cup {Written(RecordTypeExit, 1, 0, 1), Written(RecordTypeComm, 1, 0, 2)}

\* disk is one of them
OrderDisk ==
    \E attrs \in OrderTables, k \in 0..MaxRecs, damage \in Damages :
        \E ws \in [1..k -> OrderWritten] :
            disk = Disk(attrs, ws, damage, TRUE)

\* Files of one or two events whose records differ in type and event ID:
\* MaxID is an ID no event has
AttrTables ==
    UNION {{<<Attr({"IP", "Time"}, idAll, <<>>)>>,
            <<Attr({"IP", "Time", "ID"}, idAll, <<1>>)>>,
            <<Attr({"Identifier", "Time"}, idAll, <<1>>),
              Attr({"Identifier", "IP"}, idAll, <<2>>)>>,
            <<Attr({"Identifier", "Time"}, idAll, <<0>>),
              Attr({"Identifier", "IP"}, idAll, <<2>>)>>,
            <<Attr({"Identifier"}, idAll, <<1>>),
              Attr({"Identifier", "IP"}, idAll, <<2>>)>>,
            <<Attr({"IP"}, idAll, <<>>), Attr({"IP"}, idAll, <<>>)>>}
           : idAll \in BOOLEAN}

AttrTypes ==
    {RecordTypeSample, RecordTypeThrottle, RecordTypeUnthrottle, RecordTypeComm,
     RecordTypeRead, recordTypeUserStart}

FirstID(attr) == IF attr.IDs = <<>> THEN 0 ELSE attr.IDs[1]

AttrWritten(attrs) ==
    {Written(type, ev, FirstID(attrs[ev]), 1) :
        type \in AttrTypes, ev \in 1..Len(attrs)}
    \cup {Written(type, 1, MaxID, 1) : type \in AttrTypes}

\* disk is one of them
AttrDisk ==
    \E attrs \in AttrTables, k \in 0..(MaxRecs - 1), perIter \in BOOLEAN :
        \E ws \in [1..k -> AttrWritten(attrs)] :
            disk = Disk(attrs, ws, "intact", perIter)

\* Files of one record of a type the files above do not hold
VariantTypes == {RecordTypeMmap, RecordTypeLost, RecordTypeFork}

\* disk is one of them
VariantDisk ==
    \E attrs \in AttrTables, type \in VariantTypes, perIter \in BOOLEAN :
        \E ev \in 1..Len(attrs) :
            disk = Disk(attrs, <<Written(type, ev, FirstID(attrs[ev]), 1)>>,
                        "intact", perIter)

\* Files that differ in their header: the magics New knows and one it
\* does not, a header cut short, a wrong hdr.Size, a zero hdr.AttrSize, and
\* a data section of size zero
Magics == {"PERFILE2", "2ELIFREP", "PERFFILE", "ELF"}

Headers ==
    {Header(complete, magic, size, attrSize) :
        complete \in BOOLEAN, magic \in Magics,
        size \in {HeaderBytes, HeaderBytes + WordBytes}, attrSize \in {0, 1}}

\* disk is one of them
HeaderDisk ==
    \E hdr \in Headers, k \in {0, 1} :
        disk = [Disk(<<Attr({"IP", "Time"}, FALSE, <<>>)>>,
                     [i \in 1..k |-> Written(RecordTypeComm, 1, 0, 1)],
                     "intact", TRUE)
                EXCEPT !.hdr = hdr]

\* Files whose attrs agree or disagree in what New compares: the offsets of
\* the ID in samples and in trailers, SampleIDAll and ReadFormat.  They hold
\* one Comm record and no sample.
CheckFormats ==
    {{"IP"}, {"ID"}, {"IP", "ID"}, {"ID", "CPU"}, {"Identifier"},
     {"Identifier", "Read"}, {"IP", "ID", "Read"}}

CheckAttrs(ids) ==
    {[Attr(fmt, idAll, ids) EXCEPT !.ReadFormat = rf] :
        fmt \in CheckFormats, idAll \in BOOLEAN, rf \in {{}, {"ID"}}}

CheckTables ==
    {<<a>> : a \in CheckAttrs(<<>>)}
    \cup {<<a, b>> : a \in CheckAttrs(<<1>>), b \in CheckAttrs(<<2>>)}

\* disk is one of them
CheckDisk ==
    \E attrs \in CheckTables :
        disk = Disk(attrs, <<Written(RecordTypeComm, 1, FirstID(attrs[1]), 1)>>,
                    "intact", TRUE)

\* Files with feature sections: a hostname, an event description (which
\* has no parser) and a CPU topology whose lists hold CPU sets parseCPUSet
\* accepts or refuses; sections the file holds in full or not; and a
\* section table that is whole or lacks its last entry
HostnameSections == {Section("Hostname", w, <<"h">>) : w \in BOOLEAN}

EventDescSections == {Section("EventDesc", TRUE, <<>>)}

CoreLists == {<<>>, <<<<"0">>>>, <<<<"0">>, <<"x">>>>, <<<<"x">>, <<"0">>>>}

ThreadLists == {<<<<"0", "-", "1">>>>, <<<<"x">>>>}

CPUTopologySections ==
    {Section("CPUTopology", w, [cores |-> c, threads |-> t]) :
        w \in BOOLEAN, c \in CoreLists, t \in ThreadLists}

\* none or one of a set of sections
Optional(secs) == {<<>>} \cup {<<x>> : x \in secs}

FeatureLists ==
    {h \o e \o c : h \in Optional(HostnameSections),
                   e \in Optional(EventDescSections),
                   c \in Optional(CPUTopologySections)}

\* disk is one of them
FeatureDisk ==
    \E secs \in FeatureLists, missing \in {0, 1} :
        /\ missing <= Len(secs)
        /\ disk = [Disk(<<Attr({"IP", "Time"}, FALSE, <<>>)>>,
                        <<Written(RecordTypeComm, 1, 0, 1)>>, "intact", TRUE)
                   EXCEPT !.features = secs, !.featTable = Len(secs) - missing]

NoDisk == [kind |-> "none"]

----------------------------------------------------------------------------
(* The parts of the package at rest *)

\* no call made yet
NoResult == [kind |-> "none"]

\* no Session in use
IdleSession ==
    /\ kernel = NewKernel
    /\ pidInfo = [pid \in PIDs |-> IF pid = -1 THEN KernelRef ELSE NoPID]
    /\ nUpdates = 0
    /\ last = [op |-> "none"]

\* no file in use
IdleRecords ==
    /\ disk = [kind |-> "none"]
    /\ file = NoFile
    /\ rs = NoRecords
    /\ emitted = <<>>
    /\ ret = "none"
    /\ sections = {}

\* parseCPUSet not called
IdleCPUSet ==
    /\ cpuStr = <<>>
    /\ cpuSet = NoResult
    /\ cpuText = NoResult
    /\ cpuAgain = NoResult

\* no Ranges in use
IdleRanges ==
    /\ ranges = [rs |-> <<>>, sorted |-> FALSE]
    /\ rangesLog = <<>>
    /\ rangesGot = NoResult

\* decodeDataSrc not called
IdleDataSrc ==
    /\ dataSrc = {}
    /\ dataSrcOut = NoResult

\* no image looked up
IdleSymbolize ==
    /\ images = {}
    /\ buildIDs = <<>>
    /\ tables = <<>>
    /\ symLog = <<>>

\* no file opened
IdleOpen ==
    /\ osFile = "none"
    /\ osCloses = 0
    /\ readerCloses = 0
    /\ closer = "nil"
    /\ fileCloses = 0

\* no process has maps
IdleHeap ==
    /\ heap = <<>>
    /\ mapsOf = [pid \in {1, 2} |-> [ids |-> <<>>, cap |-> 0, from |-> 0]]
    /\ heapLast = [op |-> "none", n |-> 0]

\* no mmap record decoded
IdleScratch ==
    /\ arrays = <<>>
    /\ recordMmap = [Addr |-> 0, Len |-> 0, FileOffset |-> 0, Filename |-> "", BuildID |-> [arr |-> 0, len |-> 0]]
    /\ kept = [heap |-> <<>>, p |-> [ids |-> <<>>, cap |-> 0]]
    /\ keptLast = [op |-> "none", n |-> 0, maps |-> <<>>]

\* no bufferedSectionReader
IdleBuf ==
    /\ bsrFile = [r |-> <<>>, dataSize |-> 0]
    /\ bsr = [buf |-> <<>>, r |-> 0, w |-> 0, err |-> "nil", pos |-> 0, off |-> 0]
    /\ bsrLast = [op |-> "none", n |-> 0, failed |-> FALSE]

AuxIdle ==
    /\ IdleCPUSet
    /\ IdleRanges
    /\ IdleDataSrc
    /\ IdleSymbolize
    /\ IdleOpen
    /\ IdleHeap
    /\ IdleScratch
    /\ IdleBuf

\* everything at rest but cpuVars
BesideCPUSet ==
    /\ IdleSession
    /\ IdleRecords
    /\ IdleRanges
    /\ IdleDataSrc
    /\ IdleSymbolize
    /\ IdleOpen
    /\ IdleHeap
    /\ IdleScratch
    /\ IdleBuf

\* everything at rest but rangesVars
BesideRanges ==
    /\ IdleSession
    /\ IdleRecords
    /\ IdleCPUSet
    /\ IdleDataSrc
    /\ IdleSymbolize
    /\ IdleOpen
    /\ IdleHeap
    /\ IdleScratch
    /\ IdleBuf

\* everything at rest but dataSrcVars
BesideDataSrc ==
    /\ IdleSession
    /\ IdleRecords
    /\ IdleCPUSet
    /\ IdleRanges
    /\ IdleSymbolize
    /\ IdleOpen
    /\ IdleHeap
    /\ IdleScratch
    /\ IdleBuf

\* everything at rest but symVars
BesideSymbolize ==
    /\ IdleSession
    /\ IdleRecords
    /\ IdleCPUSet
    /\ IdleRanges
    /\ IdleDataSrc
    /\ IdleOpen
    /\ IdleHeap
    /\ IdleScratch
    /\ IdleBuf

\* everything at rest but openVars and recordsVars
BesideOpen ==
    /\ IdleSession
    /\ IdleCPUSet
    /\ IdleRanges
    /\ IdleDataSrc
    /\ IdleSymbolize
    /\ IdleHeap
    /\ IdleScratch
    /\ IdleBuf

\* everything at rest but heapVars
BesideHeap ==
    /\ IdleSession
    /\ IdleRecords
    /\ IdleCPUSet
    /\ IdleRanges
    /\ IdleDataSrc
    /\ IdleSymbolize
    /\ IdleOpen
    /\ IdleScratch
    /\ IdleBuf

\* everything at rest but scratchVars
BesideScratch ==
    /\ IdleSession
    /\ IdleRecords
    /\ IdleCPUSet
    /\ IdleRanges
    /\ IdleDataSrc
    /\ IdleSymbolize
    /\ IdleOpen
    /\ IdleHeap
    /\ IdleBuf

\* everything at rest but bufVars
BesideBuf ==
    /\ IdleSession
    /\ IdleRecords
    /\ IdleCPUSet
    /\ IdleRanges
    /\ IdleDataSrc
    /\ IdleSymbolize
    /\ IdleOpen
    /\ IdleHeap
    /\ IdleScratch

----------------------------------------------------------------------------
(* Session.Update *)

NoLast == [op |-> "none"]

Init ==
    /\ kernel = NewKernel
    /\ pidInfo = [pid \in PIDs |-> IF pid = -1 THEN KernelRef ELSE NoPID]
    /\ nUpdates = 0
    /\ last = NoLast
    /\ disk = NoDisk
    /\ file = NoFile
    /\ rs = NoRecords
    /\ emitted = <<>>
    /\ ret = "none"
    /\ sections = {}
    /\ AuxIdle

\* case *perffile.RecordComm
UpdateComm ==
    \E pid \in PIDs, comm \in Comms :
        LET info == [EnsurePID(kernel, pidInfo, pid) EXCEPT !.Comm = comm]
        IN  /\ nUpdates < MaxUpdates
            /\ kernel' = StoreKernel(kernel, pidInfo, pid, info)
            /\ pidInfo' = StorePID(kernel, pidInfo, pid, info)
            /\ nUpdates' = nUpdates + 1
            /\ last' = [op |-> "comm", pid |-> pid]
            /\ UNCHANGED <<recordsVars, auxVars>>

\* an Exit record that leaves the process where it is
UpdateExitKeep ==
    \E pid \in PIDs : \E tid \in TIDs(pid) :
        /\ nUpdates < MaxUpdates
        /\ nUpdates' = nUpdates + 1
        /\ last' = [op |-> "exit", pid |-> pid, tid |-> tid,
                    had |-> pidInfo[pid] # NoPID]
        /\ UNCHANGED <<kernel, pidInfo, recordsVars, auxVars>>

\* case *perffile.RecordExit; last.had tells whether the PID was known
UpdateExit ==
    \E pid \in PIDs : \E tid \in TIDs(pid) :
        /\ nUpdates < MaxUpdates
        /\ pidInfo' = IF pid = tid THEN [pidInfo EXCEPT ![pid] = NoPID] ELSE pidInfo
        /\ nUpdates' = nUpdates + 1
        /\ last' = [op |-> "exit", pid |-> pid, tid |-> tid,
                    had |-> pidInfo[pid] # NoPID]
        /\ UNCHANGED <<kernel, recordsVars, auxVars>>

\* a Fork record that is taken for a process fork whatever its TID
UpdateForkThread ==
    \E pid \in PIDs, ppid \in PIDs : \E tid \in TIDs(pid) :
        LET parent == EnsurePID(kernel, pidInfo, ppid)
            pi1    == StorePID(kernel, pidInfo, ppid, parent)
        IN  /\ nUpdates < MaxUpdates
            /\ pidInfo' = [pi1 EXCEPT ![pid] = Fork(parent)]
            /\ nUpdates' = nUpdates + 1
            /\ last' = [op |-> "fork", pid |-> pid, tid |-> tid, ppid |-> ppid]
            /\ UNCHANGED <<kernel, recordsVars, auxVars>>

\* case *perffile.RecordFork
UpdateFork ==
    \E pid \in PIDs, ppid \in PIDs : \E tid \in TIDs(pid) :
        LET parent == EnsurePID(kernel, pidInfo, ppid)
            pi1    == StorePID(kernel, pidInfo, ppid, parent)
        IN  /\ nUpdates < MaxUpdates
            /\ pidInfo' = IF pid = tid THEN [pi1 EXCEPT ![pid] = Fork(parent)] ELSE pidInfo
            /\ nUpdates' = nUpdates + 1
            /\ last' = [op |-> "fork", pid |-> pid, tid |-> tid, ppid |-> ppid]
            /\ UNCHANGED <<kernel, recordsVars, auxVars>>

\* case *perffile.RecordMmap
UpdateMmap ==
    \E pid \in PIDs, addr \in 0..(MaxEnd - 1), mlen \in 1..MaxEnd,
       off \in FileOffsets, fn \in Filenames :
        LET info0 == EnsurePID(kernel, pidInfo, pid)
            info1 == Munmap(info0, addr, mlen)
            info2 == AppendMap(info1, [Addr |-> addr, Len |-> mlen,
                                       FileOffset |-> off, Filename |-> fn])
        IN  /\ nUpdates < MaxUpdates
            /\ addr + mlen <= MaxEnd
            /\ kernel' = StoreKernel(kernel, pidInfo, pid, info2)
            /\ pidInfo' = StorePID(kernel, pidInfo, pid, info2)
            /\ nUpdates' = nUpdates + 1
            /\ last' = [op |-> "mmap", pid |-> pid, addr |-> addr, len |-> mlen,
                        pre |-> info0.maps, mid |-> info1.maps]
            /\ UNCHANGED <<recordsVars, auxVars>>

\* case *perffile.RecordSample
UpdateSample ==
    \E pid \in PIDs :
        LET info == EnsurePID(kernel, pidInfo, pid)
        IN  /\ nUpdates < MaxUpdates
            /\ pidInfo' = StorePID(kernel, pidInfo, pid, info)
            /\ nUpdates' = nUpdates + 1
            /\ last' = [op |-> "sample", pid |-> pid]
            /\ UNCHANGED <<kernel, recordsVars, auxVars>>

Next ==
    \/ UpdateComm
    \/ UpdateExit
    \/ UpdateFork
    \/ UpdateMmap
    \/ UpdateSample

Spec == Init /\ [][Next]_vars

----------------------------------------------------------------------------
(* Claims about the Session tracker *)

\* every PIDInfo object of the Session: the kernel and the processes
PIDInfoObjects ==
    {kernel} \cup {pidInfo[pid] : pid \in {q \in PIDs : pidInfo[q].kind = "info"}}

\* M and N do not overlap: M.end <= N.start or N.end <= M.start
Disjoint(m, n) == m.Addr + m.Len <= n.Addr \/ n.Addr + n.Len <= m.Addr

\* C1: after any sequence of Update calls, any two distinct entries of one
\* PIDInfo's maps list cover disjoint address ranges.
C1_NonOverlappingMaps ==
    \A p \in PIDInfoObjects :
        \A i, j \in 1..Len(p.maps) : i # j => Disjoint(p.maps[i], p.maps[j])

\* the addresses the maps of a list cover
Covered(maps) ==
    {x \in 0..(AddrMod - 1) :
        \E i \in 1..Len(maps) : maps[i].Addr <= x /\ x < maps[i].Addr + maps[i].Len}

\* the addresses of [a, a+n)
Interval(a, n) == {x \in 0..(AddrMod - 1) : a <= x /\ x < a + n}

\* C2: right after munmap(a, n) (before Update appends the new mapping) the
\* PID's maps cover what they covered before, minus [a, a+n).
C2_MunmapSubtraction ==
    last.op = "mmap" =>
        Covered(last.mid) = Covered(last.pre) \ Interval(last.addr, last.len)

\* the entries of maps that start inside the region of m
InRegion(maps, m) ==
    {j \in 1..Len(maps) : m.Addr <= maps[j].Addr /\ maps[j].Addr < m.Addr + m.Len}

\* C3: when munmap(a, n) falls strictly inside a map M, the list afterwards
\* holds exactly two maps for M's region, [M.Addr, a) and [a+n, M.end), with
\* M's filename, the tail's file offset advanced by a+n - M.Addr.
C3_MunmapSplit ==
    last.op = "mmap" =>
        \A i \in 1..Len(last.pre) :
            LET m == last.pre[i]
                a == last.addr
                e == last.addr + last.len
            IN  (m.Addr < a /\ e < m.Addr + m.Len) =>
                    /\ Cardinality(InRegion(last.mid, m)) = 2
                    /\ \E h, t \in InRegion(last.mid, m) :
                          /\ last.mid[h].Addr = m.Addr
                          /\ last.mid[h].Len = a - m.Addr
                          /\ last.mid[h].Filename = m.Filename
                          /\ last.mid[t].Addr = e
                          /\ last.mid[t].Len = m.Addr + m.Len - e
                          /\ last.mid[t].Filename = m.Filename
                          /\ last.mid[t].FileOffset = m.FileOffset + (e - m.Addr)

----------------------------------------------------------------------------
(* Reading a file: New, File.Records, Records.Next *)

InitRecords ==
    /\ OrderDisk \/ AttrDisk \/ VariantDisk \/ HeaderDisk \/ CheckDisk \/ FeatureDisk
    /\ file = NoFile
    /\ rs = NoRecords
    /\ emitted = <<>>
    /\ ret = "none"
    /\ sections = {}
    /\ kernel = NewKernel
    /\ pidInfo = [pid \in PIDs |-> IF pid = -1 THEN KernelRef ELSE NoPID]
    /\ nUpdates = 0
    /\ last = NoLast
    /\ AuxIdle

\* perffile.New(r)
CallNew ==
    /\ file = NoFile
    /\ ret = "none"
    /\ file' = IF NewErr(disk) = "nil" THEN NewFile(disk) ELSE NoFile
    /\ ret' = IF NewErr(disk) = "nil" THEN "file" ELSE "error"
    /\ sections' = NewSections(disk)
    /\ UNCHANGED <<disk, rs, emitted, sessionVars, auxVars>>

\* f.Records(order)
CallRecords ==
    \E order \in Orders :
        LET res == FileRecords(file, order)
        IN  /\ file # NoFile
            /\ rs = NoRecords
            /\ rs' = res.rs
            /\ ret' = IF res.panic THEN "panic" ELSE order
            /\ UNCHANGED <<disk, file, emitted, sections, sessionVars, auxVars>>

\* rs.Next()
CallNext ==
    LET n == RecordsNext(file, rs)
    IN  /\ rs # NoRecords
        /\ ret # "panic"
        /\ rs' = n.rs
        /\ ret' = IF n.panic THEN "panic" ELSE IF n.ok THEN "true" ELSE "false"
        /\ emitted' = IF n.ok THEN Append(emitted, n.rs.Record) ELSE emitted
        /\ UNCHANGED <<disk, file, sections, sessionVars, auxVars>>

NextRecords ==
    \/ CallNew
    \/ CallRecords
    \/ CallNext

SpecRecords == InitRecords /\ [][NextRecords]_vars

----------------------------------------------------------------------------
(* Claims about the record iterator *)

\* rs came from Records(RecordsCausalOrder) or Records(RecordsTimeOrder) and
\* its first pass succeeded
TimeOrdered == rs # NoRecords /\ rs.order.set

\* the sorted order read so far differs from the file order
Reordered ==
    \E i \in 1..(Len(emitted) - 1) :
        emitted[i].common.Offset > emitted[i + 1].common.Offset

\* C4: the records a time-ordered or causal-ordered iterator emits have
\* non-decreasing Time (0 for a record without a time stamp).
C4_TimeSorted ==
    TimeOrdered =>
        \A i \in 1..(Len(emitted) - 1) :
            emitted[i].common.Time <= emitted[i + 1].common.Time

C4_Witness ==
    /\ TimeOrdered
    /\ Len(emitted) = MaxRecs
    /\ Reordered
    /\ emitted[1].common.Time < emitted[MaxRecs].common.Time

\* C5: records with equal Time are emitted in the order of their file
\* offsets.
C5_Stable ==
    TimeOrdered =>
        \A i, j \in 1..Len(emitted) :
            (i < j /\ emitted[i].common.Time = emitted[j].common.Time)
                => emitted[i].common.Offset < emitted[j].common.Offset

C5_Witness ==
    /\ TimeOrdered
    /\ Reordered
    /\ \E i, j \in 1..Len(emitted) :
          /\ i < j
          /\ emitted[i].common.Time = emitted[j].common.Time
          /\ \E k \in 1..Len(emitted) :
                emitted[k].common.Offset > emitted[i].common.Offset
                /\ emitted[k].common.Offset < emitted[j].common.Offset

\* rs.Next() until it returns false, collecting rs.Record
RECURSIVE Drain(_, _, _)
Drain(f, it, acc) ==
    LET n == RecordsNext(f, it)
    IN  IF n.panic \/ ~n.ok THEN [rs |-> n.rs, recs |-> acc, panic |-> n.panic]
        ELSE Drain(f, n.rs, Append(acc, n.rs.Record))

\* the iteration of f in file order
FileOrderRun(f) == Drain(f, NewRecords(NilOrder), <<>>)

\* a time-ordered iterator has nothing left to read
Exhausted == TimeOrdered /\ rs.order.pos = <<>> /\ ret = "false"

\* C6: when the iteration in file order completes without error, the
\* iteration in time order emits the same records (offset, type and fields),
\* each exactly once.
C6_TimeOrderEmitsAll ==
    (Exhausted /\ FileOrderRun(file).rs.err = "nil")
        => /\ Len(emitted) = Len(FileOrderRun(file).recs)
           /\ Range(emitted) = Range(FileOrderRun(file).recs)

\* C7: once Err() is non-nil every later Next returns false, emits nothing
\* and leaves Err() as it is; the iterator Records returns when its first
\* pass failed has the error of that pass and emits no record.
C7_StickyErr ==
    [][/\ (rs # NoRecords /\ rs.err # "nil")
            => (ret' = "false" /\ rs'.err = rs.err /\ emitted' = emitted)
       /\ (/\ ret \in {"RecordsCausalOrder", "RecordsTimeOrder"}
           /\ FileOrderRun(file).rs.err # "nil")
            => (/\ rs.err = FileOrderRun(file).rs.err
                /\ ret' = "false"
                /\ emitted' = <<>>)]_vars

\* Next was called on the iterator of a failed first pass
C7_Witness ==
    /\ rs # NoRecords
    /\ rs.err # "nil"
    /\ ~rs.order.set
    /\ rs.sr = newBufferedSectionReader
    /\ ret = "false"
    /\ FileOrderRun(file).recs # <<>>

\* What the next rs.Next() reads, when it reads a whole record: the offset
\* in the data section, the header and the payload.
Upcoming ==
    LET b0 == IF rs.order.set
              THEN Seek(rs.sr, Head(rs.order.pos) - file.dataOffset, 0).b
              ELSE rs.sr
        h  == ReadFull(file, b0, 1, <<>>)
        p  == ReadFull(file, h.b, (h.data[1].size - 1) % SizeMod, <<>>)
    IN  IF rs = NoRecords \/ ret = "panic" THEN [ok |-> FALSE]
        ELSE IF rs.err # "nil" \/ (rs.order.set /\ rs.order.pos = <<>>)
        THEN [ok |-> FALSE]
        ELSE IF h.err # "nil" THEN [ok |-> FALSE]
        ELSE IF p.err # "nil" THEN [ok |-> FALSE]
        ELSE [ok |-> TRUE, offset |-> b0.pos,
              hdr |-> [Type |-> h.data[1].type, Misc |-> h.data[1].misc,
                       Size |-> h.data[1].size],
              payload |-> p.data]

UpcomingIs(types) == Upcoming.ok /\ Upcoming.hdr.Type \in types

\* the event ID an upcoming sample carries
SampleID == Upcoming.payload[(file.sampleIDOffset \div WordBytes) + 1].v

\* id is in the ID list of some EventAttr of the file
Registered(id) == Owner(file.attrs, id) # 0

\* C8: a sample whose event ID has no registered EventAttr makes Next return
\* false with Err() non-nil, and every emitted sample has the EventAttr
\* registered for the ID it carries.
C8_SampleAttr ==
    [][/\ (/\ UpcomingIs({RecordTypeSample})
           /\ file.sampleIDOffset # -1
           /\ ~Registered(SampleID))
            => (ret' = "false" /\ rs'.err # "nil")
       /\ (/\ UpcomingIs({RecordTypeSample})
           /\ file.sampleIDOffset # -1
           /\ ret' = "true")
            => (/\ Registered(SampleID)
                /\ AttrAt(file, rs'.Record.common.EventAttr)
                      = file.attrs[Owner(file.attrs, SampleID)])]_vars

\* the event ID in the body of an upcoming Throttle or Unthrottle
ThrottleID == Upcoming.payload[2].v

Throttles == {RecordTypeThrottle, RecordTypeUnthrottle}

\* the file has an EventAttr for ID 0, registered or as the only event of a
\* file without ID list
HasFallback ==
    \/ Lookup(file, 0) # NilAttr
    \/ (Len(file.attrs) = 1 /\ file.attrs[1].IDs = <<>>)

KnownTypes ==
    {RecordTypeMmap, RecordTypeLost, RecordTypeComm, RecordTypeExit,
     RecordTypeThrottle, RecordTypeUnthrottle, RecordTypeFork, RecordTypeSample}

\* Next emits the upcoming record as a RecordUnknown with its header and
\* payload, without error, and stands at the record that follows
EmitsUnknown ==
    /\ ret' = "true"
    /\ rs'.err = "nil"
    /\ rs'.Record.kind = "RecordUnknown"
    /\ rs'.Record.body.hdr = Upcoming.hdr
    /\ rs'.Record.body.Data = Upcoming.payload
    /\ rs'.Record.common.Offset = Upcoming.offset + file.dataOffset
    /\ rs'.sr.pos = Upcoming.offset + Upcoming.hdr.Size

\* C10 as stated: a record of unknown type never stops the iteration.
C10_UnknownNeverStops ==
    [][(Upcoming.ok /\ Upcoming.hdr.Type \notin KnownTypes) => EmitsUnknown]_vars

\* Next parses the sample_id trailer of the upcoming record
ParsesTrailer ==
    /\ file.sampleIDAll
    /\ Upcoming.hdr.Type # RecordTypeSample
    /\ Upcoming.hdr.Type < recordTypeUserStart

\* the trailer of the upcoming record names an EventAttr getAttr finds
TrailerResolves ==
    parseCommon(file, Upcoming.payload, ZeroCommon, FALSE).rec.EventAttr # NilAttr

\* C10, amended: a record of unknown type is emitted as a RecordUnknown with
\* its header and payload and the iteration goes on, provided that its
\* sample_id trailer, when Next parses one (a file with SampleIDAll, a type
\* below recordTypeUserStart), names an EventAttr; when it names none, Next
\* returns false with Err() non-nil.
C10_UnknownRecord ==
    [][(Upcoming.ok /\ Upcoming.hdr.Type \notin KnownTypes)
        => IF ParsesTrailer /\ ~TrailerResolves
           THEN ret' = "false" /\ rs'.err # "nil" /\ emitted' = emitted
           ELSE EmitsUnknown]_vars

\* an unknown record with a parsed trailer was emitted from a file of two
\* events, and the record after it too
C10_Witness ==
    /\ file # NoFile
    /\ file.sampleIDAll
    /\ Len(file.attrs) > 1
    /\ Len(emitted) = 2
    /\ emitted[1].kind = "RecordUnknown"
    /\ emitted[1].body.hdr.Type = RecordTypeRead
    /\ emitted[1].common.EventAttr # NilAttr
    /\ emitted[2].kind = "RecordSample"

----------------------------------------------------------------------------
(* Claims about EventAttr and the Format mask *)

\* File.Events: pointers to the elements of file.attrs
Events(f) == {AttrsPtr(i) : i \in 1..Len(f.attrs)}

\* C11: every emitted record that is not a RecordUnknown and has a non-nil
\* EventAttr has one of the elements of File.Events as its EventAttr (the
\* object itself), and the one whose ID list holds the record's ID when some
\* list does.
C11_EventAttrInEvents ==
    \A i \in 1..Len(emitted) :
        (emitted[i].kind # "RecordUnknown" /\ emitted[i].common.EventAttr # NilAttr)
            => /\ emitted[i].common.EventAttr \in Events(file)
               /\ Registered(emitted[i].common.ID)
                    => emitted[i].common.EventAttr
                          = AttrsPtr(Owner(file.attrs, emitted[i].common.ID))

\* the fields of RecordCommon a Format bit stands for
CommonBits == {"TID", "Time", "ID", "StreamID", "CPU"}

\* the value a record has for bit, as the unit that holds it in the file
CommonField(c, bit) ==
    CASE bit = "TID"      -> Pair(c.PID, c.TID)
      [] bit = "Time"     -> c.Time
      [] bit = "ID"       -> c.ID
      [] bit = "StreamID" -> c.StreamID
      [] bit = "CPU"      -> Pair(c.CPU, c.Res)

\* the written records whose bytes are those of the upcoming record
UpcomingSources ==
    {w \in {Written(Upcoming.hdr.Type, ev, id, time) :
                ev \in 1..Len(file.attrs), id \in 0..(MaxID + 1), time \in 0..MaxTime} :
        Encode(file.attrs, w)
            = <<HeaderUnit(Upcoming.hdr.Type, Upcoming.hdr.Misc, Upcoming.hdr.Size)>>
              \o Upcoming.payload}

\* C12: for every emitted record and every bit set in its Format, the field
\* of RecordCommon the bit stands for holds the value stored in the record's
\* bytes: some written record with these bytes has the values the record
\* shows.
C12_FormatMaskTruth ==
    [][(Upcoming.ok /\ ret' = "true")
        => \E w \in UpcomingSources :
              \A bit \in rs'.Record.common.Format \cap CommonBits :
                  CommonField(rs'.Record.common, bit) = FieldValue(w)[bit]]_vars

----------------------------------------------------------------------------
(* Claims about processes in the Session *)

Addrs == 0..(AddrMod - 1)

\* C13: after Update with a Fork record whose PID = TID, LookupPID(child) is
\* a PIDInfo with the Comm the parent had at the fork and with the parent's
\* maps, map by map, and LookupMmap on the child resolves every address the
\* parent resolved to an equal mapping.
C13_ForkClone ==
    [][(last'.op = "fork" /\ last'.pid = last'.tid)
        => LET parent == EnsurePID(kernel, pidInfo, last'.ppid)
               child  == LookupPID(kernel', pidInfo', last'.pid)
           IN  /\ child # NoPID
               /\ child.Comm = parent.Comm
               /\ child.maps = parent.maps
               /\ \A addr \in Addrs :
                     LookupMmap(kernel, parent, addr) # NilMmap
                        => LookupMmap(kernel', child, addr)
                              = LookupMmap(kernel, parent, addr)]_vars

\* a process with a name and a map was forked into another PID
C13_Witness ==
    /\ last.op = "fork"
    /\ last.pid = last.tid
    /\ last.pid # last.ppid
    /\ LookupPID(kernel, pidInfo, last.pid) # NoPID
    /\ LookupPID(kernel, pidInfo, last.pid).Comm = "sh"
    /\ LookupPID(kernel, pidInfo, last.pid).maps # <<>>
    /\ \E addr \in Addrs :
          LookupMmap(kernel, LookupPID(kernel, pidInfo, last.pid), addr) # NilMmap

\* the record of the Update call l creates a PIDInfo for p when there is
\* none: a Comm, Mmap or Sample of p, or the fork of a process with p as the
\* child or as the parent
Creates(l, p) ==
    \/ l.op \in {"comm", "mmap", "sample"} /\ l.pid = p
    \/ l.op = "fork" /\ l.pid = l.tid /\ (l.pid = p \/ l.ppid = p)

\* C14: after Update with a Comm, Mmap or Sample record of PID p,
\* LookupPID(p) is non-nil; after Update with an Exit record with
\* PID = TID = p it is nil; and it goes from nil to non-nil only in an
\* Update whose record creates a PIDInfo for p.
C14_Lifecycle ==
    [][\A p \in PIDs :
          /\ (last'.op \in {"comm", "mmap", "sample"} /\ last'.pid = p)
                => LookupPID(kernel', pidInfo', p) # NoPID
          /\ (last'.op = "exit" /\ last'.pid = p /\ last'.tid = p)
                => LookupPID(kernel', pidInfo', p) = NoPID
          /\ (LookupPID(kernel, pidInfo, p) = NoPID
              /\ LookupPID(kernel', pidInfo', p) # NoPID)
                => Creates(last', p)]_vars

\* a process that was known has exited, others are still known
C14_Witness ==
    /\ last.op = "exit"
    /\ last.pid = last.tid
    /\ last.had
    /\ last.pid # -1
    /\ LookupPID(kernel, pidInfo, last.pid) = NoPID
    /\ \E p \in PIDs \ {-1} : LookupPID(kernel, pidInfo, p) # NoPID

\* C15: Update with an Exit or Fork record whose PID # TID changes nothing
\* in the Session: the known PIDs, every Comm and every maps list stay as
\* they are.
C15_ThreadNoOp ==
    [][(last'.op \in {"exit", "fork"} /\ last'.pid # last'.tid)
        => (kernel' = kernel /\ pidInfo' = pidInfo)]_vars

\* a thread was created while some process has a name and a map
C15_Witness ==
    /\ last.op = "fork"
    /\ last.pid # last.tid
    /\ LookupPID(kernel, pidInfo, last.pid) = NoPID
    /\ LookupPID(kernel, pidInfo, last.ppid) = NoPID
    /\ \E p \in PIDs \ {-1} :
          /\ LookupPID(kernel, pidInfo, p) # NoPID
          /\ LookupPID(kernel, pidInfo, p).Comm = "sh"
          /\ LookupPID(kernel, pidInfo, p).maps # <<>>

\* C16: LookupMmap(addr) on a known process returns a map of the process
\* when one of them contains addr, else the kernel PIDInfo's map that
\* contains addr, and nil only when neither has one.
C16_LookupMmapFallback ==
    \A p \in PIDs : \A addr \in Addrs :
        LookupPID(kernel, pidInfo, p) # NoPID =>
            LET info == LookupPID(kernel, pidInfo, p)
                got  == LookupMmap(kernel, info, addr)
            IN  /\ mapFind(info, addr) # NilMmap => got = mapFind(info, addr)
                /\ (mapFind(info, addr) = NilMmap /\ mapFind(kernel, addr) # NilMmap)
                      => got = mapFind(kernel, addr)
                /\ got = NilMmap
                      => (mapFind(info, addr) = NilMmap /\ mapFind(kernel, addr) = NilMmap)

\* C17: LookupPID(-1) is the kernel PIDInfo, the one LookupMmap falls back
\* to, after any sequence of Update calls.
C17_KernelPinned == pidInfo[-1] = KernelRef

----------------------------------------------------------------------------
(* Claims about perffile.New *)

\* New has been called
Opened == ret # "none"

\* C18: New returns an error and no File for every file whose magic is not
\* the little-endian v2 magic and for every file whose data section has
\* size zero, and reads neither attrs nor IDs nor feature sections of it.
C18_BadMagicOrTruncated ==
    (Opened /\ (disk.hdr.Magic # "PERFILE2" \/ disk.dataSize = 0))
        => /\ ret = "error"
           /\ file = NoFile
           /\ sections \cap {"attrs", "ids", "features"} = {}

\* New has rejected a whole file with records for its big-endian magic
C18_Witness ==
    /\ ret = "error"
    /\ file = NoFile
    /\ disk.hdr = [GoodHeader EXCEPT !.Magic = "2ELIFREP"]
    /\ disk.dataSize > 0
    /\ sections = {"header"}

\* the attrs go together: one offset of the ID in samples and one in
\* trailers, neither of them -1, one SampleIDAll flag and one ReadFormat
Consistent(attrs) ==
    \A i, j \in 1..Len(attrs) :
        /\ sampleIDOffset(attrs[i].SampleFormat) # -1
        /\ sampleIDOffset(attrs[i].SampleFormat) = sampleIDOffset(attrs[j].SampleFormat)
        /\ recordIDOffset(attrs[i].SampleFormat) # -1
        /\ recordIDOffset(attrs[i].SampleFormat) = recordIDOffset(attrs[j].SampleFormat)
        /\ attrs[i].SampleIDAll = attrs[j].SampleIDAll
        /\ attrs[i].ReadFormat = attrs[j].ReadFormat

HasIDs(attrs) == \E i \in 1..Len(attrs) : attrs[i].IDs # <<>>

\* C19: the EventAttrs of a File with several that New returned go
\* together, and New rejects a file with several EventAttrs that do not, or
\* that have no IDs.
C19_ConsistentEvents ==
    (Opened /\ Len(disk.attrs) > 1)
        => /\ file # NoFile => Consistent(file.attrs)
           /\ (~Consistent(disk.attrs) \/ ~HasIDs(disk.attrs))
                 => (ret = "error" /\ file = NoFile)

\* New has returned a File with two EventAttrs that have a ReadFormat and
\* the ID after other fields
C19_Witness ==
    /\ file # NoFile
    /\ Len(file.attrs) = 2
    /\ file.attrs[1].ReadFormat = {"ID"}
    /\ file.sampleIDOffset > 0
    /\ file.attrs[1].SampleFormat # file.attrs[2].SampleFormat

\* C20: in every EventAttr of a File New returned, a SampleFormat with Read
\* comes with a ReadFormat with ID.
C20_ReadImpliesID ==
    file # NoFile =>
        \A i \in 1..Len(file.attrs) :
            "Read" \in file.attrs[i].SampleFormat => "ID" \in file.attrs[i].ReadFormat

----------------------------------------------------------------------------
(* Calls of parseCPUSet and CPUSet.String *)

\* The strings explored: up to MaxParts parts joined by commas, each a CPU
\* index, a range of two (the second may be the smaller, or negative), or
\* something strconv.Atoi refuses
CPUNumbers == (0..MaxCPU) \cup {Base}

CPUParts ==
    {Itoa(n) : n \in CPUNumbers}
    \cup {Itoa(a) \o <<"-">> \o Itoa(b) : a \in 0..MaxCPU, b \in CPUNumbers \cup {-1}}
    \cup {<<>>, <<"x">>, <<"-", "1">>, <<"1", "-">>}

RECURSIVE CPUStrings(_)
CPUStrings(n) ==
    IF n = 1 THEN CPUParts
    ELSE CPUStrings(n - 1)
         \cup {s \o <<",">> \o p : s \in CPUStrings(n - 1), p \in CPUParts}

InitCPUSet ==
    /\ cpuStr \in CPUStrings(MaxParts)
    /\ cpuSet = NoResult
    /\ cpuText = NoResult
    /\ cpuAgain = NoResult
    /\ BesideCPUSet

\* set, err := parseCPUSet(str)
CallParseCPUSet ==
    /\ cpuSet = NoResult
    /\ cpuSet' = parseCPUSet(cpuStr)
    /\ UNCHANGED <<cpuStr, cpuText, cpuAgain, exceptCPUSet>>

\* text := set.String()
CallString ==
    /\ cpuSet # NoResult
    /\ cpuSet.ok
    /\ cpuText = NoResult
    /\ cpuText' = [s |-> String(cpuSet.out)]
    /\ UNCHANGED <<cpuStr, cpuSet, cpuAgain, exceptCPUSet>>

\* parseCPUSet(text)
CallParseAgain ==
    /\ cpuText # NoResult
    /\ cpuAgain = NoResult
    /\ cpuAgain' = parseCPUSet(cpuText.s)
    /\ UNCHANGED <<cpuStr, cpuSet, cpuText, exceptCPUSet>>

NextCPUSet ==
    \/ CallParseCPUSet
    \/ CallString
    \/ CallParseAgain

SpecCPUSet == InitCPUSet /\ [][NextCPUSet]_vars

----------------------------------------------------------------------------
(* Claims about CPUSet *)

\* C23: for every string parseCPUSet accepts, parsing the String of the
\* set it returned succeeds and returns the same set.
C23_RoundTrip ==
    cpuAgain # NoResult => (cpuAgain.ok /\ cpuAgain.out = cpuSet.out)

\* a sequence of ints in strictly increasing order
Increasing(c) == \A i \in 1..(Len(c) - 1) : c[i] < c[i + 1]

\* C30: every CPUSet parseCPUSet returns is in strictly increasing order,
\* each CPU index in it once.
C30_StrictlyIncreasing ==
    (cpuSet # NoResult /\ cpuSet.ok) => Increasing(cpuSet.out)

----------------------------------------------------------------------------
(* perfsession.Ranges *)

\* the indexes looked up are 0..MaxIdx; ranges lie within [0, MaxIdx + 1)
MaxIdx == 3

\* number of Add and Get calls
MaxCalls == 4

rangeEnt(lo, hi, val) == [lo |-> lo, hi |-> hi, val |-> val]

\* an Add that leaves r.sorted as it is
AddKeepSorted(r, lo, hi, val) ==
    [rs |-> Append(r.rs, rangeEnt(lo, hi, val)), sorted |-> r.sorted]

\* r.Add(lo, hi, val)
Add(r, lo, hi, val) ==
    [rs |-> Append(r.rs, rangeEnt(lo, hi, val)), sorted |-> FALSE]

\* sort.Slice(rs, func(i, j int) bool { return rs[i].lo < rs[j].lo })
RECURSIVE InsertEnt(_, _)
InsertEnt(e, s) ==
    IF s = <<>> THEN <<e>>
    ELSE IF e.lo < Head(s).lo THEN <<e>> \o s
    ELSE <<Head(s)>> \o InsertEnt(e, Tail(s))

RECURSIVE SortByLo(_)
SortByLo(s) ==
    IF s = <<>> THEN <<>>
    ELSE InsertEnt(s[Len(s)], SortByLo(SubSeq(s, 1, Len(s) - 1)))

\* sort.Search(len(rs), func(i int) bool { return idx < rs[i].hi }): the
\* binary search between i and j, on indexes from 0
RECURSIVE Search(_, _, _, _)
Search(s, idx, i, j) ==
    IF i >= j THEN i
    ELSE IF ~(idx < s[((i + j) \div 2) + 1].hi)
        THEN Search(s, idx, ((i + j) \div 2) + 1, j)
    ELSE Search(s, idx, i, (i + j) \div 2)

\* "return 0, 0, nil, false"
NotFound == [lo |-> 0, hi |-> 0, val |-> 0, ok |-> FALSE]

\* Get's sort of r.rs when r.sorted is false
getSort(r) == IF r.sorted THEN r ELSE [rs |-> SortByLo(r.rs), sorted |-> TRUE]

\* Get's test of the entry sort.Search found
getEntry(s, idx, i) ==
    IF i < Len(s) /\ s[i + 1].lo <= idx /\ idx < s[i + 1].hi
    THEN [lo |-> s[i + 1].lo, hi |-> s[i + 1].hi, val |-> s[i + 1].val, ok |-> TRUE]
    ELSE NotFound

\* r.Get(idx): r afterwards and what Get returns
Get(r, idx) ==
    [r   |-> getSort(r),
     res |-> getEntry(getSort(r).rs, idx, Search(getSort(r).rs, idx, 0, Len(r.rs)))]

InitRanges ==
    /\ IdleRanges
    /\ BesideRanges

\* r.Add(lo, hi, val) with a non-empty range that overlaps none of r; val
\* tells the Add calls apart
CallAdd ==
    \E lo \in 0..MaxIdx, hi \in 1..(MaxIdx + 1) :
        /\ Len(rangesLog) < MaxCalls
        /\ lo < hi
        /\ \A k \in 1..Len(ranges.rs) : ranges.rs[k].hi <= lo \/ hi <= ranges.rs[k].lo
        /\ ranges' = Add(ranges, lo, hi, Len(ranges.rs) + 1)
        /\ rangesLog' = Append(rangesLog, [op |-> "Add", lo |-> lo, hi |-> hi,
                                           val |-> Len(ranges.rs) + 1])
        /\ rangesGot' = NoResult
        /\ UNCHANGED exceptRanges

\* r.Get(idx)
CallGet ==
    \E idx \in 0..MaxIdx :
        /\ Len(rangesLog) < MaxCalls
        /\ ranges' = Get(ranges, idx).r
        /\ rangesLog' = Append(rangesLog, [op |-> "Get", idx |-> idx])
        /\ rangesGot' = [idx |-> idx, res |-> Get(ranges, idx).res]
        /\ UNCHANGED exceptRanges

NextRanges ==
    \/ CallAdd
    \/ CallGet

SpecRanges == InitRanges /\ [][NextRanges]_vars

----------------------------------------------------------------------------
(* Claims about Ranges *)

\* the Add calls made so far
Added == {rangesLog[k] : k \in {n \in 1..Len(rangesLog) : rangesLog[n].op = "Add"}}

\* the added ranges that contain idx
Holding(idx) == {e \in Added : e.lo <= idx /\ idx < e.hi}

\* C24: whatever the order of the Add and Get calls, Get(idx) returns the
\* added range that contains idx with its value and true, and false when
\* no added range contains idx.
C24_GetFindsAdded ==
    rangesGot # NoResult =>
        /\ Holding(rangesGot.idx) = {} => rangesGot.res = NotFound
        /\ \A e \in Holding(rangesGot.idx) :
              rangesGot.res = [lo |-> e.lo, hi |-> e.hi, val |-> e.val, ok |-> TRUE]

\* Get has found a range that was added after an earlier Get and below a
\* range added before it
C24_Witness ==
    /\ rangesGot # NoResult
    /\ rangesGot.res.ok
    /\ \E i, j, k \in 1..Len(rangesLog) :
          /\ i < j /\ j < k /\ k < Len(rangesLog)
          /\ rangesLog[i].op = "Add"
          /\ rangesLog[j].op = "Get"
          /\ rangesLog[k].op = "Add"
          /\ rangesLog[k].hi <= rangesLog[i].lo
          /\ rangesLog[k].val = rangesGot.res.val

----------------------------------------------------------------------------
(* perffile.decodeDataSrc *)
(*                                                                         *)
(* The uint64 is the set of the positions of its one bits, bit 0 the       *)
(* lowest.                                                                 *)

DataSrcOpNA == 0

DataSrcOpStore == 2

DataSrcLevelNA == 0

DataSrcSnoopFwd == 16

DataSrcSnoopNA == 0

DataSrcLockNA == 0

DataSrcLockUnlocked == 1

DataSrcLockLocked == 2

DataSrcTLBNA == 0

DataSrcBlockNA == 0

RECURSIVE Pow2(_)
Pow2(n) == IF n = 0 THEN 1 ELSE 2 * Pow2(n - 1)

\* (d >> shift) & (2^width - 1)
RECURSIVE Field(_, _, _)
Field(d, shift, width) ==
    IF width = 0 THEN 0
    ELSE Field(d, shift, width - 1)
         + (IF shift + width - 1 \in d THEN Pow2(width - 1) ELSE 0)

\* x & 2^k != 0
Bit(x, k) == (x \div Pow2(k)) % 2 = 1

decodeOp(op) == IF Bit(op, 0) THEN DataSrcOpNA ELSE op \div 2

decodeMiss(lvl) == IF Bit(lvl, 0) THEN FALSE ELSE Bit(lvl, 2)

decodeLevel(lvl) == IF Bit(lvl, 0) THEN DataSrcLevelNA ELSE lvl \div 8

decodeSnoop(snoop, snoopX) ==
    IF Bit(snoop, 0) THEN DataSrcSnoopNA
    ELSE (snoop \div 2) + (IF Bit(snoopX, 0) THEN DataSrcSnoopFwd ELSE 0)

\* a decoding of the lock bits that takes "no bit set" for not available
decodeLockedZeroNA(lock) ==
    IF Bit(lock, 0) \/ lock = 0 THEN DataSrcLockNA
    ELSE DataSrcLockLocked

decodeLocked(lock) ==
    IF Bit(lock, 0) THEN DataSrcLockNA
    ELSE IF Bit(lock, 1) THEN DataSrcLockLocked
    ELSE DataSrcLockUnlocked

decodeTLB(dtlb) == IF Bit(dtlb, 0) THEN DataSrcTLBNA ELSE dtlb \div 2

decodeBlock(blk) == IF Bit(blk, 0) THEN DataSrcBlockNA ELSE blk \div 2

decodeDataSrc(d) ==
    [Op       |-> decodeOp(Field(d, 0, 5)),
     Miss     |-> decodeMiss(Field(d, 5, 14)),
     Level    |-> decodeLevel(Field(d, 5, 14)),
     Snoop    |-> decodeSnoop(Field(d, 19, 5), Field(d, 38, 2)),
     Locked   |-> decodeLocked(Field(d, 24, 2)),
     TLB      |-> decodeTLB(Field(d, 26, 7)),
     LevelNum |-> Field(d, 33, 4),
     Remote   |-> Field(d, 37, 1) # 0,
     Block    |-> decodeBlock(Field(d, 40, 3)),
     Hops     |-> Field(d, 43, 3)]

\* the bits that are set in some of the words explored: the low bits of
\* mem_op, mem_lvl, mem_snoop, mem_lock, mem_dtlb, mem_snoopx and mem_blk
DataSrcBits == {0, 2, 5, 6, 7, 19, 20, 24, 25, 26, 38, 40}

InitDataSrc ==
    /\ dataSrc \in SUBSET DataSrcBits
    /\ dataSrcOut = NoResult
    /\ BesideDataSrc

\* out := decodeDataSrc(d)
CallDecodeDataSrc ==
    /\ dataSrcOut = NoResult
    /\ dataSrcOut' = decodeDataSrc(dataSrc)
    /\ UNCHANGED <<dataSrc, exceptDataSrc>>

NextDataSrc ==
    \/ CallDecodeDataSrc

SpecDataSrc == InitDataSrc /\ [][NextDataSrc]_vars

----------------------------------------------------------------------------
(* Claims about decodeDataSrc *)

\* decodeDataSrc has decoded 0x64, the word with bits 2, 5 and 6 set
Decoded64 == dataSrc = {2, 5, 6} /\ dataSrcOut # NoResult

\* C26 as stated: decodeDataSrc(0x64) has Op Store, Level NA, Snoop NA,
\* Locked NA, TLB NA and Miss false.
C26_Decode64 ==
    Decoded64 =>
        /\ dataSrcOut.Op = DataSrcOpStore
        /\ dataSrcOut.Level = DataSrcLevelNA
        /\ dataSrcOut.Snoop = DataSrcSnoopNA
        /\ dataSrcOut.Locked = DataSrcLockNA
        /\ dataSrcOut.TLB = DataSrcTLBNA
        /\ dataSrcOut.Miss = FALSE

\* C26 amended: decodeDataSrc(0x64) has Op Store, Level NA, Snoop NA, TLB
\* NA and Miss false, and Locked is Unlocked: neither lock bit is set.
C26_Decode64Unlocked ==
    Decoded64 =>
        /\ dataSrcOut.Op = DataSrcOpStore
        /\ dataSrcOut.Level = DataSrcLevelNA
        /\ dataSrcOut.Snoop = DataSrcSnoopNA
        /\ dataSrcOut.Locked = DataSrcLockUnlocked
        /\ dataSrcOut.TLB = DataSrcTLBNA
        /\ dataSrcOut.Miss = FALSE

\* decodeDataSrc has decoded 0x64 and found it a store, not locked
C26_Witness ==
    /\ Decoded64
    /\ dataSrcOut.Op = DataSrcOpStore
    /\ dataSrcOut.Locked = DataSrcLockUnlocked

----------------------------------------------------------------------------
(* perfsession.Symbolize *)

\* number of Symbolize calls
MaxSymbolize == 3

\* the mmap.Filename values of the maps symbolized
SymFiles == {"a", "b"}

\* a *symbolicExtra that is nil
NilExtra == [kind |-> "nil"]

\* no entry in the map under this filename
NoEntry == [kind |-> "absent"]

\* the path of a build ID in the build ID cache
CachePath(bid) == <<".build-id", bid>>

\* the path of the image itself
OwnPath(filename) == <<"", filename>>

\* newSymbolicExtra(path): the tables loaded from the image, (nil, err)
\* when it cannot be loaded
newSymbolicExtra(imgs, path) ==
    IF path \in imgs THEN [kind |-> "extra", from |-> path] ELSE NilExtra

\* the loop over bids of getSymbolicExtra: extra and the paths tried
RECURSIVE tryBuildIDs(_, _, _, _)
tryBuildIDs(imgs, bids, filename, tried) ==
    IF bids = <<>> THEN [extra |-> NilExtra, tried |-> tried]
    ELSE IF Head(bids).Filename # filename
        THEN tryBuildIDs(imgs, Tail(bids), filename, tried)
    ELSE IF newSymbolicExtra(imgs, CachePath(Head(bids).BuildID)) # NilExtra
        THEN [extra |-> newSymbolicExtra(imgs, CachePath(Head(bids).BuildID)),
              tried |-> Append(tried, CachePath(Head(bids).BuildID))]
    ELSE tryBuildIDs(imgs, Tail(bids), filename,
                     Append(tried, CachePath(Head(bids).BuildID)))

\* "Try original path." after the loop
tryOriginal(imgs, filename, c) ==
    IF c.extra = NilExtra
    THEN [extra |-> newSymbolicExtra(imgs, OwnPath(filename)),
          tried |-> Append(c.tried, OwnPath(filename))]
    ELSE c

\* the part of getSymbolicExtra that loads and stores
loadExtra(t, filename, l) ==
    [tables |-> [t EXCEPT ![filename] = l.extra], extra |-> l.extra, tried |-> l.tried]

\* a getSymbolicExtra that answers from the map only when the image stored
\* there was loaded
getSymbolicExtraRetry(t, imgs, bids, filename) ==
    IF t[filename] \notin {NoEntry, NilExtra}
    THEN [tables |-> t, extra |-> t[filename], tried |-> <<>>]
    ELSE loadExtra(t, filename,
                   tryOriginal(imgs, filename, tryBuildIDs(imgs, bids, filename, <<>>)))

\* getSymbolicExtra(session, filename): the map afterwards, the
\* *symbolicExtra returned and the paths newSymbolicExtra was called with
getSymbolicExtra(t, imgs, bids, filename) ==
    IF t[filename] # NoEntry
    THEN [tables |-> t, extra |-> t[filename], tried |-> <<>>]
    ELSE loadExtra(t, filename,
                   tryOriginal(imgs, filename, tryBuildIDs(imgs, bids, filename, <<>>)))

\* the build IDs of the images in the file's build ID section
SymBuildIDs ==
    {[Filename |-> "a", BuildID |-> "01"], [Filename |-> "a", BuildID |-> "02"],
     [Filename |-> "b", BuildID |-> "01"]}

SymPaths == {OwnPath(f) : f \in SymFiles} \cup {CachePath(x.BuildID) : x \in SymBuildIDs}

InitSymbolize ==
    /\ images \in SUBSET SymPaths
    /\ buildIDs \in {<<>>} \cup {<<x>> : x \in SymBuildIDs}
                    \cup {<<x, y>> : x \in SymBuildIDs, y \in SymBuildIDs}
    /\ tables = [f \in SymFiles |-> NoEntry]
    /\ symLog = <<>>
    /\ BesideSymbolize

\* Symbolize(session, mmap, ip, out) for a map of file filename
CallSymbolize ==
    \E filename \in SymFiles :
        LET s == getSymbolicExtra(tables, images, buildIDs, filename)
        IN  /\ Len(symLog) < MaxSymbolize
            /\ tables' = s.tables
            /\ symLog' = Append(symLog, [filename |-> filename, tried |-> s.tried,
                                         ret |-> s.extra # NilExtra])
            /\ UNCHANGED <<images, buildIDs, exceptSymbolize>>

NextSymbolize ==
    \/ CallSymbolize

SpecSymbolize == InitSymbolize /\ [][NextSymbolize]_vars

----------------------------------------------------------------------------
(* Claims about the symbolizer *)

\* C25: of the Symbolize calls of a session for one filename only the
\* first tries to load the image; the later ones try no path, and return
\* false when the first one failed to load it.
C25_LoadOnce ==
    \A i, j \in 1..Len(symLog) :
        (i < j /\ symLog[i].filename = symLog[j].filename)
            => /\ symLog[j].tried = <<>>
               /\ symLog[j].ret = symLog[i].ret
               /\ tables[symLog[j].filename] = NilExtra => ~symLog[j].ret

\* a second Symbolize for a filename whose image could not be loaded, from
\* the build ID cache or from its own path, has returned false
C25_Witness ==
    /\ Len(symLog) > 1
    /\ symLog[1].filename = symLog[Len(symLog)].filename
    /\ Len(symLog[1].tried) > 1
    /\ ~symLog[1].ret
    /\ ~symLog[Len(symLog)].ret
    /\ symLog[Len(symLog)].tried = <<>>

----------------------------------------------------------------------------
(* perffile.Open and File.Close *)

\* number of File.Close calls
MaxClose == 2

\* a Close that leaves f.closer set
CloseKeep(c) == [closer |-> c, closed |-> c # "nil"]

\* f.Close(): f.closer afterwards, and whether f.closer.Close() was called
Close(c) == [closer |-> "nil", closed |-> c # "nil"]

\* the files opened: with the headers New tells apart, and with attrs New
\* accepts or refuses
InitOpen ==
    /\ HeaderDisk \/ CheckDisk
    /\ file = NoFile
    /\ rs = NoRecords
    /\ emitted = <<>>
    /\ ret = "none"
    /\ sections = {}
    /\ IdleOpen
    /\ BesideOpen

\* perffile.Open(name); os.Open fails when there is no file of that name
CallOpen ==
    \E exists \in BOOLEAN :
        /\ file = NoFile
        /\ ret = "none"
        /\ osFile = "none"
        /\ file' = IF exists /\ NewErr(disk) = "nil" THEN NewFile(disk) ELSE NoFile
        /\ ret' = IF exists /\ NewErr(disk) = "nil" THEN "file" ELSE "error"
        /\ sections' = IF exists THEN NewSections(disk) ELSE {}
        /\ osFile' = IF ~exists THEN "none"
                     ELSE IF NewErr(disk) = "nil" THEN "open" ELSE "closed"
        /\ osCloses' = IF exists /\ NewErr(disk) # "nil" THEN osCloses + 1 ELSE osCloses
        /\ closer' = IF exists /\ NewErr(disk) = "nil" THEN "f" ELSE closer
        /\ UNCHANGED <<disk, rs, emitted, readerCloses, fileCloses, exceptOpen>>

\* f.Close()
CallClose ==
    /\ file # NoFile
    /\ fileCloses < MaxClose
    /\ closer' = Close(closer).closer
    /\ osFile' = IF Close(closer).closed THEN "closed" ELSE osFile
    /\ osCloses' = IF Close(closer).closed THEN osCloses + 1 ELSE osCloses
    /\ fileCloses' = fileCloses + 1
    /\ UNCHANGED <<readerCloses, recordsVars, exceptOpen>>

NextOpen ==
    \/ CallOpen
    \/ CallNew
    \/ CallClose

SpecOpen == InitOpen /\ [][NextOpen]_vars

----------------------------------------------------------------------------
(* Claims about the file handle *)

\* C22: a File from Open holds its handle open until Close, which closes
\* it once however often it is called; when Open fails after os.Open, the
\* handle is closed when Open returns; Close on a File from New leaves the
\* caller's reader alone.
C22_HandleOwnership ==
    /\ (osFile # "none" /\ file # NoFile /\ fileCloses = 0)
          => (osFile = "open" /\ osCloses = 0)
    /\ (osFile # "none" /\ file # NoFile /\ fileCloses > 0)
          => (osFile = "closed" /\ osCloses = 1)
    /\ (osFile # "none" /\ file = NoFile)
          => (ret = "error" /\ osFile = "closed" /\ osCloses = 1)
    /\ osFile = "none" => osCloses = 0
    /\ readerCloses = 0

\* Close has been called twice on a File from Open
C22_Witness ==
    /\ file # NoFile
    /\ osFile = "closed"
    /\ osCloses = 1
    /\ fileCloses = 2

----------------------------------------------------------------------------
(* Claims about the feature sections *)

\* the parse of a feature section of the file fails
FeatureParseFails == \E i \in 1..Len(disk.features) : parse(ZeroMeta, disk.features[i]).err # NoErr

\* C21: when the parse of a feature section fails, because the section
\* cannot be read in full or because its parser returns an error, New
\* returns an error and no File.
C21_FeatureFailureAborts ==
    (Opened /\ FeatureParseFails) => (ret = "error" /\ file = NoFile)

----------------------------------------------------------------------------
(* The Mmap objects of a Session, by address *)
(*                                                                         *)
(* The same Update as above, with the *Mmap pointers of all processes in   *)
(* one heap, so that a change made through one process's pointer shows in  *)
(* every list that holds the pointer.                                      *)

\* number of Update calls
MaxHeapOps == 3

\* the processes that fork and map
HeapPIDs == {1, 2}

\* p.munmap(addr, mlen) on the objects of heap h: the heap and p.maps
\* afterwards
munmapEnd(st, p) ==
    [heap |-> st.heap,
     p    |-> [p EXCEPT !.ids = IF st.removed THEN FillHoles(st.nm, 1, 1) ELSE st.nm,
                        !.cap = st.cap]]

munmap(h, p, addr, mlen) ==
    munmapEnd(MunmapLoop([heap |-> h, old |-> p.ids, nm |-> p.ids, shared |-> TRUE,
                          cap |-> p.cap, removed |-> FALSE],
                         1, addr, Wrap(addr + mlen)), p)

\* info.maps = append(info.maps, &Mmap{make(ForkableExtra), *r})
appendMmap(h, p, m) ==
    [heap |-> Append(h, m),
     p    |-> [p EXCEPT !.ids = Append(@, Len(h) + 1),
                        !.cap = IF Len(p.ids) >= p.cap
                                THEN GrowCap(p.cap, Len(p.ids) + 1) ELSE @]]

\* a fork that hands the child the parent's pointers
forkShared(h, p, ppid) ==
    [heap |-> h, p |-> [ids |-> p.ids, cap |-> Len(p.ids), from |-> ppid]]

\* p.fork(pid): a new list of new Mmap objects, each "&Mmap{..., m.RecordMmap}"
fork(h, p, ppid) ==
    [heap |-> h \o [i \in 1..Len(p.ids) |-> h[p.ids[i]]],
     p    |-> [ids |-> [i \in 1..Len(p.ids) |-> Len(h) + i], cap |-> Len(p.ids),
               from |-> ppid]]

InitHeap ==
    /\ IdleHeap
    /\ BesideHeap

\* Update(&RecordMmap{PID: pid, Addr: addr, Len: mlen})
HeapMmap ==
    \E pid \in HeapPIDs, addr \in 0..(MaxEnd - 1), mlen \in 1..MaxEnd,
       off \in FileOffsets, fn \in Filenames :
        LET u == munmap(heap, mapsOf[pid], addr, mlen)
            a == appendMmap(u.heap, u.p, [Addr |-> addr, Len |-> mlen,
                                          FileOffset |-> off, Filename |-> fn])
        IN  /\ heapLast.n < MaxHeapOps
            /\ addr + mlen <= MaxEnd
            /\ heap' = a.heap
            /\ mapsOf' = [mapsOf EXCEPT ![pid] = a.p]
            /\ heapLast' = [op |-> "mmap", pid |-> pid, heap |-> heap, mapsOf |-> mapsOf,
                            n |-> heapLast.n + 1]
            /\ UNCHANGED exceptHeap

\* Update(&RecordFork{PID: pid, TID: pid, PPID: ppid})
HeapFork ==
    \E pid \in HeapPIDs, ppid \in HeapPIDs :
        LET c == fork(heap, mapsOf[ppid], ppid)
        IN  /\ heapLast.n < MaxHeapOps
            /\ heap' = c.heap
            /\ mapsOf' = [mapsOf EXCEPT ![pid] = c.p]
            /\ heapLast' = [op |-> "fork", pid |-> pid, heap |-> heap, mapsOf |-> mapsOf,
                            n |-> heapLast.n + 1]
            /\ UNCHANGED exceptHeap

NextHeap ==
    \/ HeapMmap
    \/ HeapFork

SpecHeap == InitHeap /\ [][NextHeap]_vars

----------------------------------------------------------------------------
(* Claims about forked map lists *)

\* the maps of process q, as (Addr, Len, FileOffset), in heap h
MapsIn(h, m, q) ==
    [i \in 1..Len(m[q].ids) |->
        [Addr |-> h[m[q].ids[i]].Addr, Len |-> h[m[q].ids[i]].Len,
         FileOffset |-> h[m[q].ids[i]].FileOffset]]

\* C27: parent and child lists are independent after a Fork: an Update
\* that maps or unmaps in one process leaves every map of every other
\* process with its Addr, Len and file offset.
C27_ForkIndependent ==
    heapLast.op = "mmap" =>
        \A q \in HeapPIDs \ {heapLast.pid} :
            MapsIn(heap, mapsOf, q) = MapsIn(heapLast.heap, heapLast.mapsOf, q)

\* an Update has clipped, split or deleted a map of a forked process that
\* was still the copy of a map of its parent
C27_Witness ==
    /\ heapLast.op = "mmap"
    /\ mapsOf[heapLast.pid].from \in HeapPIDs \ {heapLast.pid}
    /\ MapsIn(heapLast.heap, heapLast.mapsOf, heapLast.pid)
         = MapsIn(heapLast.heap, heapLast.mapsOf, mapsOf[heapLast.pid].from)
    /\ Len(heapLast.mapsOf[heapLast.pid].ids) > 0
    /\ \E i \in 1..Len(heapLast.mapsOf[heapLast.pid].ids) :
          heap[heapLast.mapsOf[heapLast.pid].ids[i]]
            # heapLast.heap[heapLast.mapsOf[heapLast.pid].ids[i]]

----------------------------------------------------------------------------
(* Records.recordMmap and the mappings a Session stores from it *)
(*                                                                         *)
(* parseMmap decodes every mmap record into the same RecordMmap and hands  *)
(* out a pointer to it; Session.Update stores "*r". A []byte field is an   *)
(* array address with a length, so the arrays are kept apart from the      *)
(* records that point at them.                                             *)

\* number of Next and Update calls
MaxScratchOps == 3

\* the nil slice
NilBytes == [arr |-> 0, len |-> 0]

\* cap(s) of a slice made by make([]byte, n) and resliced from 0
Cap(arrs, s) == IF s.arr = 0 THEN 0 ELSE Len(arrs[s.arr])

\* the bytes of slice s
Bytes(arrs, s) == IF s.arr = 0 THEN <<>> ELSE SubSeq(arrs[s.arr], 1, s.len)

\* copy(x, src) for len(src) = len(x): the array behind x afterwards
copy(arr, src) == src \o SubSeq(arr, Len(src) + 1, Len(arr))

\* the "if v2" block of parseMmap for a record of build ID in.id: the arrays
\* and o.BuildID afterwards
parseBuildID(arrs, o, in) ==
    IF ~in.v2 THEN [arrays |-> arrs, BuildID |-> o.BuildID]
    ELSE IF ~in.buildID THEN [arrays |-> arrs, BuildID |-> NilBytes]
    ELSE IF o.BuildID.arr = 0 \/ Cap(arrs, o.BuildID) < Len(in.id)
         THEN [arrays  |-> Append(arrs, in.id),
               BuildID |-> [arr |-> Len(arrs) + 1, len |-> Len(in.id)]]
         ELSE [arrays  |-> [arrs EXCEPT ![o.BuildID.arr] = copy(@, in.id)],
               BuildID |-> [arr |-> o.BuildID.arr, len |-> Len(in.id)]]

\* parseMmap(bd, hdr, common, v2) as the change it makes to o = &r.recordMmap
parseMmapInto(arrs, o, in) ==
    [arrays |-> parseBuildID(arrs, o, in).arrays,
     o      |-> [Addr |-> in.Addr, Len |-> in.Len, FileOffset |-> in.FileOffset,
                 Filename |-> in.Filename,
                 BuildID |-> parseBuildID(arrs, o, in).BuildID]]

\* build IDs of the mmap2 records
BuildIDInputs == {<<1>>, <<2>>, <<1, 2>>}

\* the mmap and mmap2 records in the file
MmapInputs ==
    [v2 : {FALSE}, buildID : {FALSE}, id : {<<>>},
     Addr : {0, 1}, Len : {2}, FileOffset : FileOffsets, Filename : {"/a", "/b"}]
    \cup [v2 : {TRUE}, buildID : {FALSE}, id : {<<>>},
          Addr : {0, 1}, Len : {2}, FileOffset : FileOffsets, Filename : {"/a", "/b"}]
    \cup [v2 : {TRUE}, buildID : {TRUE}, id : BuildIDInputs,
          Addr : {0, 1}, Len : {2}, FileOffset : FileOffsets, Filename : {"/a", "/b"}]

\* what a stored mapping reads as
ReadMmap(arrs, m) ==
    [Addr |-> m.Addr, Len |-> m.Len, FileOffset |-> m.FileOffset,
     Filename |-> m.Filename, BuildID |-> Bytes(arrs, m.BuildID)]

\* what the mappings of the process read as
KeptMaps(arrs, k) == [i \in 1..Len(k.p.ids) |-> ReadMmap(arrs, k.heap[k.p.ids[i]])]

InitScratch ==
    /\ IdleScratch
    /\ BesideScratch

\* Records.Next() reaches an mmap or mmap2 record
ScratchNext ==
    \E in \in MmapInputs :
        LET r == parseMmapInto(arrays, recordMmap, in)
        IN  /\ keptLast.n < MaxScratchOps
            /\ arrays' = r.arrays
            /\ recordMmap' = r.o
            /\ keptLast' = [op |-> "next", n |-> keptLast.n + 1,
                            maps |-> KeptMaps(arrays, kept)]
            /\ UNCHANGED <<kept, exceptScratch>>

\* Update(rs.Record) with the record Next returned
ScratchUpdate ==
    LET u == munmap(kept.heap, kept.p, recordMmap.Addr, recordMmap.Len)
    IN  /\ keptLast.n < MaxScratchOps
        /\ keptLast.op # "none"
        /\ kept' = appendMmap(u.heap, u.p, recordMmap)
        /\ keptLast' = [op |-> "update", n |-> keptLast.n + 1,
                        maps |-> KeptMaps(arrays, kept)]
        /\ UNCHANGED <<arrays, recordMmap, exceptScratch>>

NextScratch ==
    \/ ScratchNext
    \/ ScratchUpdate

SpecScratch == InitScratch /\ [][NextScratch]_vars

----------------------------------------------------------------------------
(* Claims about stored mappings *)

\* a mapping is stored and Next has decoded another mmap record since
DecodedOverKept ==
    /\ keptLast.op = "next"
    /\ Len(keptLast.maps) > 0

\* C28: a mapping stored by Update keeps its Addr, Len, file offset,
\* Filename and BuildID bytes whatever Next decodes into recordMmap
\* afterwards.
C28_KeptAcrossDecode ==
    DecodedOverKept => KeptMaps(arrays, kept) = keptLast.maps

\* all of a stored mapping but the BuildID bytes
NoBuildID(maps) == [i \in 1..Len(maps) |-> [maps[i] EXCEPT !.BuildID = <<>>]]

\* the part of C28 that holds: Addr, Len, file offset and Filename are kept
C28_KeptFields ==
    DecodedOverKept => NoBuildID(KeptMaps(arrays, kept)) = NoBuildID(keptLast.maps)

----------------------------------------------------------------------------
(* Calls of bufferedSectionReader.Read and Seek *)

\* units in the section
MaxSection == 3

\* number of Read and Seek calls
MaxBufOps == 3

\* the sections read: unit i holds i, and the file may end before the
\* section does
BufFiles ==
    {[r |-> [i \in 1..have |-> i], dataSize |-> size] :
        size \in 0..MaxSection, have \in 0..MaxSection}

\* where the bytes of the section end
RealEnd(f) == Min(Len(f.r), f.dataSize)

InitBuf ==
    /\ bsrFile \in BufFiles
    /\ Len(bsrFile.r) <= bsrFile.dataSize
    /\ bsr = newBufferedSectionReader
    /\ bsrLast = [op |-> "none", n |-> 0, failed |-> FALSE]
    /\ BesideBuf

\* b.Read(p) with len(p) = want
BufRead ==
    \E want \in {0, 1, BufUnits} :
        LET res == Read(bsrFile, bsr, want)
        IN  /\ bsrLast.n < MaxBufOps
            /\ bsr' = res.b
            /\ bsrLast' = [op |-> "read", n |-> bsrLast.n + 1, failed |-> bsrLast.failed,
                           want |-> want, count |-> res.n, err |-> res.err,
                           data |-> res.data, before |-> bsr.pos,
                           after |-> IF bsrLast.op = "seek" /\ bsrLast.whence = 0
                                        /\ bsrLast.err = "nil"
                                     THEN bsrLast.offset ELSE -1]
            /\ UNCHANGED <<bsrFile, exceptBuf>>

\* b.Seek(offset, whence)
BufSeek ==
    \E whence \in {0, 1}, offset \in -1..MaxSection :
        LET res == Seek(bsr, offset, whence)
        IN  /\ bsrLast.n < MaxBufOps
            /\ whence = 1 => offset <= 1
            /\ bsr' = res.b
            /\ bsrLast' = [op |-> "seek", n |-> bsrLast.n + 1,
                           failed |-> bsrLast.failed \/ res.err # "nil",
                           whence |-> whence, offset |-> offset, pos |-> res.pos,
                           err |-> res.err]
            /\ UNCHANGED <<bsrFile, exceptBuf>>

NextBuf ==
    \/ BufRead
    \/ BufSeek

SpecBuf == InitBuf /\ [][NextBuf]_vars

----------------------------------------------------------------------------
(* Claims about bufferedSectionReader *)

\* the last call was a Read that followed a successful Seek(off, 0)
ReadAfterSeek ==
    /\ bsrLast.op = "read"
    /\ bsrLast.after >= 0

\* the Read delivered the section's bytes from off, nothing when asked for
\* something only at the end of the bytes, and an error only when it reached
\* that end
FromOffset(f, off, l) ==
    /\ l.count > 0 => off + l.count <= RealEnd(f)
    /\ l.count > 0 => l.data = SectionData(f, off, l.count)
    /\ l.want > 0 /\ l.count = 0 => off >= RealEnd(f)
    /\ l.err # "nil" => l.err = "EOF" /\ off + l.count >= RealEnd(f)

\* Seek(0, 1) reports the offset of the next byte Read will deliver
ReportsNext(f, b) ==
    Read(f, b, 1).n = 1 => Read(f, b, 1).data = SectionData(f, Seek(b, 0, 1).pos, 1)

\* C29: after any sequence of Read and Seek calls, a successful Seek(off, 0)
\* makes the next Read deliver the section's bytes starting at off or
\* report the section's real end, never bytes or an error buffered before
\* the Seek; and Seek(0, 1) always reports the offset of the next byte Read
\* will deliver.
C29_SeekThenRead ==
    /\ ReadAfterSeek => FromOffset(bsrFile, bsrLast.after, bsrLast)
    /\ ReportsNext(bsrFile, bsr)

\* the first half of C29 for a file that holds the whole section
C29_SeekThenReadWhole ==
    ReadAfterSeek /\ Len(bsrFile.r) >= bsrFile.dataSize
        => FromOffset(bsrFile, bsrLast.after, bsrLast)

\* the second half of C29 as long as no Seek has failed
C29_ReportsNextUnfailed ==
    ~bsrLast.failed => ReportsNext(bsrFile, bsr)

====
